---- MODULE Spec2Model ----
(***************************************************************************)
(* A model of proxylet, a streaming HTTP reverse proxy built on eventlet.   *)
(*                                                                         *)
(* Byte strings are sequences of symbols, one symbol a byte.  The words of   *)
(* a header section that the program never looks into ("GET", "Host",       *)
(* "HTTP/1.1") are written as one symbol each; header values and bodies     *)
(* are spelled byte by byte, so that a slice such as s[1:] drops one byte.  *)
(*                                                                         *)
(* Five machines share the module: the Dispatcher of one client            *)
(* connection (Spec), one HTTPRewriter serializing one message              *)
(* (SpecRewriter), one Relocator rewriting one url (SpecRelocator), the     *)
(* server pools of two Dispatchers (SpecPool) and one XMLRewriter over one  *)
(* document (SpecXml).                                                      *)
(*                                                                         *)
(* Scheduling is eventlet's: microthreads are cooperative, a task runs      *)
(* until it blocks in socket I/O (readline, write, connect) or ends.  The   *)
(* variable cur holds the task that has the CPU; the I/O actions need       *)
(* cur = {} and the others need cur = {task}.                               *)
(***************************************************************************)
EXTENDS Integers, Sequences, FiniteSets, TLC

\* ------------------------------------------------------------------ bounds

\* Requests a client script holds at most.
MaxReqs == 2

\* ----------------------------------------------------------- byte strings

SP == " "
CR == "\r"
LF == "\n"
COLON == ":"

\* str.isspace / str.split / str.strip: the whitespace bytes.
Whitespace == {" ", "\t", "\r", "\n"}

\* readline(size=None): no limit on the line's length.
NoSize == -1

Take(s, n) == SubSeq(s, 1, n)
Drop(s, n) == SubSeq(s, n + 1, Len(s))

\* str.find(b): the 0-based index of the first b in s, or -1.
find(s, b) ==
  IF \E i \in 1..Len(s) : s[i] = b
  THEN (CHOOSE i \in 1..Len(s) : s[i] = b /\ \A j \in 1..(i - 1) : s[j] # b) - 1
  ELSE -1

\* StringStream.readline: the bytes up to and including the first "\n", the
\* whole string if it has none, at most size bytes if a size is given.
readline(s, size) ==
  LET nl  == find(s, LF)
      idx == IF nl < 0 THEN Len(s) ELSE nl + 1
      cut == IF size # NoSize /\ idx > size THEN size ELSE idx
  IN  Take(s, cut)

\* str.isspace: non-empty and all whitespace.
isspace(s) == s # <<>> /\ \A i \in 1..Len(s) : s[i] \in Whitespace

\* The length of the longest prefix of s without whitespace.
RECURSIVE wordLen(_)
wordLen(s) ==
  IF s = <<>> \/ s[1] \in Whitespace THEN 0 ELSE 1 + wordLen(Tail(s))

\* str.split(): the maximal runs of non-whitespace bytes.
RECURSIVE split(_)
split(s) ==
  IF s = <<>> THEN <<>>
  ELSE IF s[1] \in Whitespace THEN split(Tail(s))
  ELSE <<Take(s, wordLen(s))>> \o split(Drop(s, wordLen(s)))

\* str.split(sep): the pieces between the occurrences of sep, empty ones kept.
RECURSIVE splitOn(_, _)
splitOn(s, sep) ==
  LET i == find(s, sep)
  IN  IF i < 0 THEN <<s>> ELSE <<Take(s, i)>> \o splitOn(Drop(s, i + 1), sep)

\* sep.join(pieces)
RECURSIVE join(_, _)
join(pieces, sep) ==
  IF pieces = <<>> THEN <<>>
  ELSE IF Len(pieces) = 1 THEN pieces[1]
  ELSE pieces[1] \o sep \o join(Tail(pieces), sep)

RECURSIVE lstrip(_)
lstrip(s) == IF s # <<>> /\ s[1] \in Whitespace THEN lstrip(Tail(s)) ELSE s

RECURSIVE rstrip(_)
rstrip(s) ==
  IF s # <<>> /\ s[Len(s)] \in Whitespace THEN rstrip(Take(s, Len(s) - 1)) ELSE s

\* str.strip()
strip(s) == rstrip(lstrip(s))

\* s[1:]
Slice1(s) == IF s = <<>> THEN <<>> ELSE Tail(s)

\* The decimal digits, for "%d" % n and int(s).
Digits == <<"0", "1", "2", "3", "4", "5", "6", "7", "8", "9">>

RECURSIVE str(_)
str(n) ==
  IF n < 10 THEN <<Digits[n + 1]>> ELSE str(n \div 10) \o <<Digits[(n % 10) + 1]>>

DigitVal(d) == (CHOOSE i \in 1..10 : Digits[i] = d) - 1

RECURSIVE int(_)
int(s) ==
  IF Len(s) = 1 THEN DigitVal(s[1])
  ELSE 10 * int(Take(s, Len(s) - 1)) + DigitVal(s[Len(s)])

\* The concatenation of a sequence of byte strings.
RECURSIVE Concat(_)
Concat(ss) == IF ss = <<>> THEN <<>> ELSE ss[1] \o Concat(Tail(ss))

\* ---------------------------------------------------------------- headers
\* A header list is a sequence of <<name, value>> pairs.  The lookups are
\* those of paste.httpheaders, which the program calls as hdr.X(headers) and
\* hdr.X.update(headers, value).

LowerByte(b) ==
  CASE b = "Host" -> "host"
    [] b = "Content-Length" -> "content-length"
    [] b = "Transfer-Encoding" -> "transfer-encoding"
    [] OTHER -> b

\* str.lower
lower(s) == [i \in 1..Len(s) |-> LowerByte(s[i])]

HOST == <<"Host">>
CONTENT_LENGTH == <<"Content-Length">>
TRANSFER_ENCODING == <<"Transfer-Encoding">>

\* HTTPHeader.values(headers): the values of the entries named hname, names
\* compared without case.
RECURSIVE hdrValues(_, _)
hdrValues(headers, hname) ==
  IF headers = <<>> THEN <<>>
  ELSE (IF lower(headers[1][1]) = lower(hname) THEN <<headers[1][2]>> ELSE <<>>)
       \o hdrValues(Tail(headers), hname)

\* hdr.X(headers): the stripped value, and the empty string (never None) when
\* the header is absent.  isNone is how "hdr.X(headers) is None" reads it.
hdrCall(headers, hname) ==
  LET vs == hdrValues(headers, hname)
  IN  IF vs = <<>> THEN [isNone |-> FALSE, val |-> <<>>]
      ELSE [isNone |-> FALSE, val |-> strip(vs[1])]

\* The entries of headers that are not named hname.
RECURSIVE hdrDelete(_, _)
hdrDelete(headers, hname) ==
  IF headers = <<>> THEN <<>>
  ELSE (IF lower(headers[1][1]) = lower(hname) THEN <<>> ELSE <<headers[1]>>)
       \o hdrDelete(Tail(headers), hname)

\* An update that leaves the headers as they are.
hdrUpdate_keep(headers, hname, value) == headers

\* hdr.X.update(headers, value): the first entry named hname becomes
\* (hname, value) in place and the later ones go; with no such entry the pair
\* is appended; an empty value removes the header.
hdrUpdate(headers, hname, value) ==
  LET v == strip(value)
      hit == {i \in 1..Len(headers) : lower(headers[i][1]) = lower(hname)}
  IN  IF v = <<>> THEN hdrDelete(headers, hname)
      ELSE IF hit = {} THEN Append(headers, <<hname, v>>)
      ELSE LET first == CHOOSE i \in hit : \A j \in hit : i <= j
           IN  Take(headers, first - 1) \o <<(<<hname, v>>)>>
               \o hdrDelete(Drop(headers, first), hname)

\* ------------------------------------------------------------- HTTPStream
\* An HTTPStream object.  gen is where its line generator (_lines) stands:
\*   G0 not started, P1 parse() waits for the start line, P2 parseHeaders()
\*   waits for a header line, GL start line next, GH header gi next,
\*   GS separator next, GB body, GE exhausted.
\* body is what the attribute `body` holds: the generator of _generateBody
\* ("gen"), a rewriting stream over it ("map"), or a list of lines ("list",
\* the lines in blist, bi the next one).

NewStream(isReq, rid, src) ==
  [isReq |-> isReq, rid |-> rid, src |-> src,
   headline |-> <<>>, headers |-> <<>>, sepline |-> <<>>, hasSep |-> FALSE,
   parsed |-> FALSE, valid |-> TRUE, bits |-> <<>>, nullified |-> FALSE,
   gen |-> "G0", gi |-> 1, bodyInit |-> FALSE, toEOF |-> FALSE, nbytes |-> 0,
   body |-> "gen", blist |-> <<>>, bi |-> 1]

\* HTTPStream.parseHeader
parseHeader(ln) ==
  LET bits  == splitOn(ln, COLON)
      name  == bits[1]
      value == strip(Slice1(join(Tail(bits), <<COLON>>)))
  IN  <<name, value>>

\* HTTPStream.parse, its first read: the start line.
parseHeadline(hs, ln) == [hs EXCEPT !.headline = ln, !.gen = "P2"]

\* HTTPStream.parseHeaders, one turn of its loop on the line read: the empty
\* line (end of stream) ends the loop with no separator kept.
parseHeaders(hs, ln) ==
  IF ln = <<>> THEN [hs EXCEPT !.parsed = TRUE, !.gen = "GL"]
  ELSE IF isspace(ln)
       THEN [hs EXCEPT !.sepline = ln, !.hasSep = TRUE, !.parsed = TRUE, !.gen = "GL"]
       ELSE [hs EXCEPT !.headers = Append(@, parseHeader(ln))]

\* HTTPRequest.parseReqLine
parseReqLine(hs) ==
  LET bits == split(hs.headline)
  IN  IF Len(bits) # 3 THEN [hs EXCEPT !.valid = FALSE] ELSE [hs EXCEPT !.bits = bits]

\* HTTPRequest.__init__, after parse(): the request line, the Host check, and
\* the replacement of a broken request's lines by a Nullify stream.
HTTPRequestInit(hs) ==
  LET h1 == parseReqLine(hs)
      h2 == IF hdrCall(h1.headers, HOST).isNone THEN [h1 EXCEPT !.valid = FALSE] ELSE h1
  IN  IF h2.valid THEN h2 ELSE [h2 EXCEPT !.nullified = TRUE]

\* A request that takes HTTPStream._getContentLength as it is: without a
\* Content-Length its body runs to the end of the stream.
getContentLength_noDefault(hs) ==
  LET cl == hdrCall(hs.headers, CONTENT_LENGTH).val
  IN  IF cl = <<>> THEN [none |-> TRUE, n |-> 0] ELSE [none |-> FALSE, n |-> int(cl)]

\* HTTPStream._getContentLength and HTTPRequest._getContentLength: none is
\* "cl is None".
getContentLength(hs) ==
  LET cl   == hdrCall(hs.headers, CONTENT_LENGTH).val
      base == IF cl = <<>> THEN [none |-> TRUE, n |-> 0] ELSE [none |-> FALSE, n |-> int(cl)]
  IN  IF hs.isReq /\ base.none /\ hdrCall(hs.headers, TRANSFER_ENCODING).val = <<>>
      THEN [none |-> FALSE, n |-> 0]
      ELSE base

\* The start line the generator yields: HTTPRequest rebuilds it from its
\* three attributes, HTTPResponse yields the line read.
headlineOut(hs) ==
  IF hs.isReq THEN join(hs.bits, <<SP>>) \o <<CR, LF>> ELSE hs.headline

\* The header line yielded for a pair.
headerOut(h) == h[1] \o <<COLON, SP>> \o h[2] \o <<CR, LF>>

\* What a generator does when asked for its next line: it yields a line, or
\* it needs a readline of the underlying socket (then Feed takes the line
\* read), or it is exhausted, or it raises.
Yield(ln, hs) == [op |-> "yield", ln |-> ln, size |-> NoSize, hs |-> hs]
Read(size, hs) == [op |-> "read", ln |-> <<>>, size |-> size, hs |-> hs]
End(hs) == [op |-> "end", ln |-> <<>>, size |-> NoSize, hs |-> [hs EXCEPT !.gen = "GE"]]
Raise(hs) == [op |-> "raise", ln |-> <<>>, size |-> NoSize, hs |-> [hs EXCEPT !.gen = "GE"]]

\* HTTPStream._generateBody: on its first turn the body's length is settled,
\* then each turn is one readline of ReadNBytes (at most nbytes bytes, none
\* read once nbytes = 0) or, with no length, of the connection itself.
generateBody(hs) ==
  LET cl == getContentLength(hs)
      h  == IF hs.bodyInit THEN hs
            ELSE [hs EXCEPT !.bodyInit = TRUE, !.toEOF = cl.none, !.nbytes = cl.n]
  IN  IF h.toEOF THEN Read(NoSize, h)
      ELSE IF h.nbytes = 0 THEN End(h)
      ELSE Read(h.nbytes, h)

\* XMLRewriter over a chunk of the body: the rewriting stream a body hook
\* returns makes a new chunk of every chunk it reads, longer where a url in
\* it grows ("x" becomes "yy"), shorter where one shrinks ("d" goes).
RECURSIVE rewriteChunk(_)
rewriteChunk(ln) ==
  IF ln = <<>> THEN <<>>
  ELSE (CASE ln[1] = "x" -> <<"y", "y">>
          [] ln[1] = "d" -> <<>>
          [] OTHER -> <<ln[1]>>) \o rewriteChunk(Tail(ln))

\* The chunk that iterating self.body gives for the line its readline
\* returned: StreamWrapper.__iter__ ends the iteration at an empty chunk.
bodyOut(hs, ln) == IF hs.body = "map" THEN rewriteChunk(ln) ELSE ln

\* for ln in self.body, one turn: the next line of a list, else a turn of the
\* generator (under the rewriting stream, if there is one).
iterBody(hs) ==
  IF hs.body = "list"
  THEN IF hs.bi <= Len(hs.blist)
       THEN Yield(hs.blist[hs.bi], [hs EXCEPT !.bi = @ + 1])
       ELSE End(hs)
  ELSE generateBody(hs)

\* HTTPStream._generateLines (and HTTPRequest._generateLines), one turn.
generateLines(hs) ==
  CASE hs.gen = "G0" /\ ~hs.parsed -> Read(NoSize, [hs EXCEPT !.gen = "P1"])
    [] hs.gen \in {"P1", "P2"} -> Read(NoSize, hs)
    [] hs.gen = "GL" \/ (hs.gen = "G0" /\ hs.parsed) ->
         Yield(headlineOut(hs), [hs EXCEPT !.gen = "GH", !.gi = 1])
    [] hs.gen = "GH" /\ hs.gi <= Len(hs.headers) ->
         Yield(headerOut(hs.headers[hs.gi]), [hs EXCEPT !.gi = @ + 1])
    [] hs.gen = "GS" \/ (hs.gen = "GH" /\ hs.gi > Len(hs.headers)) ->
         IF hs.hasSep THEN Yield(hs.sepline, [hs EXCEPT !.gen = "GB"]) ELSE Raise(hs)
    [] hs.gen = "GB" -> iterBody(hs)
    [] OTHER -> End(hs)

\* A ReadNBytes that does not count.
takeBody_noCount(hs, ln) == hs

\* ReadNBytes.readline counts the line read off nbytes.
takeBody(hs, ln) == IF hs.toEOF THEN hs ELSE [hs EXCEPT !.nbytes = @ - Len(ln)]

\* The generator takes the line its readline returned.  A body line is
\* yielded on as bodyOut makes it (ReadNBytes counts it off); an empty one
\* ends the body.
Feed(hs, ln) ==
  CASE hs.gen = "P1" -> parseHeadline(hs, ln)
    [] hs.gen = "P2" -> parseHeaders(hs, ln)
    [] OTHER ->
         LET h == takeBody(hs, ln)
         IN  IF bodyOut(hs, ln) = <<>> THEN [h EXCEPT !.gen = "GE"] ELSE h

\* After Feed: is the line read one the generator yields?
FeedYields(hs, ln) == hs.gen = "GB" /\ ln # <<>>

\* ---------------------------------------------------------------- sockets
\* A socket: the bytes its peer sends (buf) and what follows them: the peer
\* closes ("eof"), the connection fails ("err"), or nothing more comes
\* ("hang").  closed is the proxy's own close().

Socket(buf, end) == [buf |-> buf, end |-> end, closed |-> FALSE]

\* GreenFile.readline(size): a line when the buffer holds a whole one; at the
\* end of the peer's bytes the rest (possibly empty) on "eof", an error on
\* "err", and no return on "hang".  A closed socket raises.
SockRead(sock, size) ==
  LET ln    == readline(sock.buf, size)
      whole == ln # <<>> /\ (ln[Len(ln)] = LF \/ (size # NoSize /\ Len(ln) = size))
  IN  IF sock.closed THEN [res |-> "error", ln |-> <<>>]
      ELSE IF whole \/ sock.end = "eof" THEN [res |-> "line", ln |-> ln]
      ELSE IF sock.end = "err" THEN [res |-> "error", ln |-> <<>>]
      ELSE [res |-> "block", ln |-> <<>>]

\* ------------------------------------------------------------- Dispatcher

VARIABLES
  cur,         \* the task that has the CPU: <<>>, DTask or TTask(t)
  dpc,         \* where the dispatch task stands
  req,         \* dispatch: the HTTPRequest being handled
  dsrv,        \* dispatch: its local `server`, a destination or "null" (Nullify)
  dln,         \* dispatch: the line that server.write(ln) is writing
  client,      \* the client socket
  servers,     \* Dispatcher.servers: destination -> pooled? and its socket
  closed,      \* Dispatcher._closed
  responses,   \* Dispatcher._responses
  processing,  \* Dispatcher._processingResps
  tasks,       \* the processResponses microthreads: pc, resp, ln
  clientOut,   \* history: the lines written to the client, <<rid, line>>
  serverOut,   \* history: the lines written to the backends, <<rid, dest, line>>
  parsed,      \* history: the valid flag of every HTTPRequest built, in order
  mapped,      \* history: the requests (rid) the mapper was invoked for
  enq,         \* history: every sendResponse, <<rid, kind, text>>
  ended,       \* history: the sockets whose stream ended or failed
  bodyStart,   \* history: the client's bytes left when the last request's
               \* headers had been read
  wr,          \* one HTTPRewriter over one message (SpecRewriter)
  loc,         \* one Relocator and the url it rewrites (SpecRelocator)
  pool,        \* the server pools of two Dispatchers (SpecPool)
  xr,          \* one XMLRewriter over one document (SpecXml)
  dav          \* one DAV or SVN relocator choosing the bodies to rewrite (SpecDav)

dvars == <<cur, dpc, req, dsrv, dln, client, servers, closed, responses,
           processing, tasks, clientOut, serverOut, parsed, mapped, enq,
           ended, bodyStart>>

vars == <<dvars, wr, loc, pool, xr, dav>>

\* The destinations (host, port) the mapper knows.
Dest == {"A", "B"}

\* processResponses is spawned once by every sendResponse (at most one per
\* request built, the one that meets the end of the stream included) and once
\* when dispatch ends.
MaxTasks == MaxReqs + 2
TaskIds == 1..MaxTasks

DTask == <<"dispatch", 0>>
TTask(t) == <<"drain", t>>

\* -- the literal responses

Resp400 ==
  <<"HTTP/1.1", SP, "400", SP, "Bad", SP, "Request", CR, LF,
    "Content-Length", COLON, SP, "0", CR, LF, CR, LF>>

content == <<"N", "o", "t", SP, "F", "o", "u", "n", "d">>

Resp404 ==
  <<"HTTP/1.1", SP, "404", SP, "Not", SP, "Found", CR, LF,
    "Content-Length", COLON, SP>> \o str(Len(content)) \o <<CR, LF, CR, LF>> \o content

\* -- response objects: a StringStream over a string, or an HTTPResponse over
\* a backend socket.

StringStream(rid, text) ==
  [kind |-> "string", rid |-> rid, str |-> text, hs |-> NewStream(FALSE, rid, "null")]

HTTPResponse(rid, server) ==
  [kind |-> "http", rid |-> rid, str |-> <<>>, hs |-> NewStream(FALSE, rid, server)]

NoResp == StringStream(0, <<>>)

\* -- the embedder's mapper: by request URI, a destination with or without a
\* rewriter, no mapping, or an error.

mapper(r) ==
  LET uri == r.bits[2]
  IN  CASE uri = <<"/a">> -> [kind |-> "map", host |-> "A", rewriter |-> "none"]
        [] uri = <<"/b">> -> [kind |-> "map", host |-> "B", rewriter |-> "none"]
        [] uri = <<"/w">> -> [kind |-> "map", host |-> "A", rewriter |-> "raise"]
        [] uri = <<"/e">> -> [kind |-> "raise", host |-> "null", rewriter |-> "none"]
        [] OTHER -> [kind |-> "none", host |-> "null", rewriter |-> "none"]

\* -- what the peers send

ReqLine(uri) == <<"GET", SP, uri, SP, "HTTP/1.1", CR, LF>>
HostLine == <<"Host", COLON, SP, "h", CR, LF>>
CLLine(n) == <<"Content-Length", COLON, SP>> \o str(n) \o <<CR, LF>>
Blank == <<CR, LF>>

Templates ==
  { ReqLine("/a") \o HostLine \o Blank,
    ReqLine("/b") \o HostLine \o CLLine(1) \o Blank \o <<"x">>,
    ReqLine("/n") \o HostLine \o CLLine(2) \o Blank \o <<"x", "y">>,
    ReqLine("/w") \o HostLine \o Blank,
    ReqLine("/e") \o HostLine \o Blank,
    <<"BAD", CR, LF>> \o Blank,
    ReqLine("/a"),
    ReqLine("/a") \o Blank }

RECURSIVE Scripts(_)
Scripts(n) ==
  IF n = 0 THEN {<<>>}
  ELSE Scripts(n - 1) \cup {s \o t : s \in Scripts(n - 1), t \in Templates}

ClientScripts == Scripts(MaxReqs)

Ends == {"eof", "err", "hang"}

StatusLine == <<"HTTP/1.1", SP, "200", SP, "OK", CR, LF>>
RespCL == StatusLine \o CLLine(1) \o Blank \o <<"z">>
RespClose == StatusLine \o Blank \o <<"z", LF, "w">>

\* A backend answers every request with a response of declared length and
\* keeps the connection, or answers once and closes, or fails.
BackendScripts ==
  { [buf |-> RespCL \o RespCL \o RespCL, end |-> "hang"],
    [buf |-> RespClose, end |-> "eof"],
    [buf |-> <<>>, end |-> "err"] }

\* -- helpers of the actions

\* socket.write on a socket the proxy closed, or whose connection failed.
SockWriteFails(sock) == sock.closed \/ (sock.end = "err" /\ sock.buf = <<>>)

Consume(sock, ln) == [sock EXCEPT !.buf = Drop(@, Len(ln))]

FreeTask == CHOOSE t \in TaskIds : tasks[t].pc = "None" /\ \A u \in TaskIds : u < t => tasks[u].pc # "None"

\* A call of processResponses that spawns nothing.
Spawn_never == UNCHANGED tasks

\* @uspawn processResponses: a new microthread, run later.
Spawn == tasks' = [tasks EXCEPT ![FreeTask].pc = "Spawned"]

\* Dispatcher.sendResponse
sendResponse(resp, kind, text) ==
  /\ responses' = Append(responses, resp)
  /\ enq' = Append(enq, <<resp.rid, kind, text>>)
  /\ Spawn

\* Dispatcher.doclose
doclose ==
  /\ client' = [client EXCEPT !.closed = TRUE]
  /\ servers' = [d \in Dest |->
       IF servers[d].pooled THEN [servers[d] EXCEPT !.sock.closed = TRUE] ELSE servers[d]]

\* The state when dispatch starts: the processResponses that __init__ spawned
\* ran first, on the empty queue, and has ended.
InitDispatcher ==
  /\ cur = DTask
  /\ dpc = "Loop"
  /\ req = NewStream(TRUE, 0, "client")
  /\ dsrv = "null"
  /\ dln = <<>>
  /\ \E script \in ClientScripts, end \in Ends : client = Socket(script, end)
  /\ servers = [d \in Dest |-> [pooled |-> FALSE, sock |-> Socket(<<>>, "hang")]]
  /\ closed = FALSE
  /\ responses = <<>>
  /\ processing = FALSE
  /\ tasks = [t \in TaskIds |-> [pc |-> "None", resp |-> NoResp, ln |-> <<>>]]
  /\ clientOut = <<>>
  /\ serverOut = <<>>
  /\ parsed = <<>>
  /\ mapped = {}
  /\ enq = <<>>
  /\ ended = {}
  /\ bodyStart = <<>>

\* No rewriter and no relocator stand alone beside the dispatcher.
NoRewriter == [pc |-> "None"]
NoRelocator == [pc |-> "None"]
NoPool == [pc |-> "None"]
NoXml == [pc |-> "None"]
NoDav == [pc |-> "None"]

Init ==
  /\ InitDispatcher
  /\ wr = NoRewriter /\ loc = NoRelocator /\ pool = NoPool /\ xr = NoXml /\ dav = NoDav

\* -- dispatch (Dispatcher.dispatch)

\* while not self._closed: req = HTTPRequest(self.client) ...
DLoop ==
  /\ cur = DTask /\ dpc = "Loop"
  /\ IF closed
     THEN dpc' = "Final" /\ UNCHANGED <<cur, req>>
     ELSE /\ dpc' = "ReadHeadline"
          /\ req' = [NewStream(TRUE, Len(parsed) + 1, "client") EXCEPT !.gen = "P1"]
          /\ cur' = <<>>
  /\ UNCHANGED <<dsrv, dln, client, servers, closed, responses, processing, tasks,
                 clientOut, serverOut, parsed, mapped, enq, ended, bodyStart>>
  /\ UNCHANGED <<wr, loc, pool, xr, dav>>

\* HTTPRequest(self.client): parse() reads the start line, then the headers,
\* through CallOnClose.readline, which calls onclose on the empty line.
DReadLine ==
  /\ cur = <<>> /\ dpc \in {"ReadHeadline", "ReadHeader"}
  /\ LET r == SockRead(client, NoSize)
         h == Feed(req, r.ln)
     IN  /\ r.res = "line"
         /\ client' = Consume(client, r.ln)
         /\ closed' = (closed \/ r.ln = <<>>)
         /\ ended' = (IF r.ln = <<>> THEN ended \cup {"client"} ELSE ended)
         /\ req' = h
         /\ IF h.parsed THEN dpc' = "Parsed" /\ cur' = DTask
                        ELSE dpc' = "ReadHeader" /\ cur' = <<>>
  /\ UNCHANGED <<dsrv, dln, servers, responses, processing, tasks,
                 clientOut, serverOut, parsed, mapped, enq, bodyStart>>
  /\ UNCHANGED <<wr, loc, pool, xr, dav>>

\* except (IOError, socket.error): break
DReadError ==
  /\ cur = <<>> /\ dpc \in {"ReadHeadline", "ReadHeader"}
  /\ SockRead(client, NoSize).res = "error"
  /\ ended' = ended \cup {"client"}
  /\ dpc' = "Final" /\ cur' = DTask
  /\ UNCHANGED <<req, dsrv, dln, client, servers, closed, responses, processing, tasks,
                 clientOut, serverOut, parsed, mapped, enq, bodyStart>>
  /\ UNCHANGED <<wr, loc, pool, xr, dav>>

\* The rest of HTTPRequest.__init__ and the test of req.valid.
DParsed ==
  /\ cur = DTask /\ dpc = "Parsed"
  /\ req' = HTTPRequestInit(req)
  /\ parsed' = Append(parsed, [valid |-> req'.valid, eof |-> req.headline = <<>>])
  /\ bodyStart' = client.buf
  /\ dpc' = IF req'.valid THEN "Route" ELSE "Bad"
  /\ UNCHANGED <<cur, dsrv, dln, client, servers, closed, responses, processing, tasks,
                 clientOut, serverOut, mapped, enq, ended>>
  /\ UNCHANGED <<wr, loc, pool, xr, dav>>

\* The 400 queued without onclose().
DBad_noClose ==
  /\ cur = DTask /\ dpc = "Bad"
  /\ sendResponse(StringStream(req.rid, Resp400), "400", Resp400)
  /\ dpc' = "Final"
  /\ UNCHANGED <<cur, req, dsrv, dln, client, servers, closed, processing,
                 clientOut, serverOut, parsed, mapped, ended, bodyStart>>
  /\ UNCHANGED <<wr, loc, pool, xr, dav>>

\* if not req.valid: 400 Bad Request, onclose, sendResponse, break
DBad ==
  /\ cur = DTask /\ dpc = "Bad"
  /\ closed' = TRUE
  /\ sendResponse(StringStream(req.rid, Resp400), "400", Resp400)
  /\ dpc' = "Final"
  /\ UNCHANGED <<cur, req, dsrv, dln, client, servers, processing,
                 clientOut, serverOut, parsed, mapped, ended, bodyStart>>
  /\ UNCHANGED <<wr, loc, pool, xr, dav>>

\* mapping = self.mapper(req), and _getServer's lookup of a mapped destination
DRoute ==
  /\ cur = DTask /\ dpc = "Route"
  /\ mapped' = mapped \cup {req.rid}
  /\ LET m == mapper(req)
     IN  CASE m.kind = "raise" -> dpc' = "Except" /\ UNCHANGED <<cur, dsrv>>
           [] m.kind = "none" -> dpc' = "NotFound" /\ UNCHANGED <<cur, dsrv>>
           [] OTHER ->
                IF servers[m.host].pooled
                THEN dpc' = "Wrap" /\ dsrv' = m.host /\ UNCHANGED cur
                ELSE dpc' = "Connect" /\ cur' = <<>> /\ UNCHANGED dsrv
  /\ UNCHANGED <<req, dln, client, servers, closed, responses, processing, tasks,
                 clientOut, serverOut, parsed, enq, ended, bodyStart>>
  /\ UNCHANGED <<wr, loc, pool, xr, dav>>

\* The 404 queued and the request left unread: its body stays in the stream.
DNotFound_noDrain ==
  /\ cur = DTask /\ dpc = "NotFound"
  /\ dsrv' = "null"
  /\ sendResponse(StringStream(req.rid, Resp404), "404", Resp404)
  /\ dpc' = "Loop"
  /\ UNCHANGED <<cur, req, dln, client, servers, closed, processing,
                 clientOut, serverOut, parsed, mapped, ended, bodyStart>>
  /\ UNCHANGED <<wr, loc, pool, xr, dav>>

\* if mapping is None: 404 Not Found, a Nullify sink for the request
DNotFound ==
  /\ cur = DTask /\ dpc = "NotFound"
  /\ dsrv' = "null"
  /\ sendResponse(StringStream(req.rid, Resp404), "404", Resp404)
  /\ dpc' = "SendReq"
  /\ UNCHANGED <<cur, req, dln, client, servers, closed, processing,
                 clientOut, serverOut, parsed, mapped, ended, bodyStart>>
  /\ UNCHANGED <<wr, loc, pool, xr, dav>>

\* _getServer: connect_tcp, CallOnClose, self.servers[destn] = server
DConnect ==
  /\ cur = <<>> /\ dpc = "Connect"
  /\ \E b \in BackendScripts :
       servers' = [servers EXCEPT ![mapper(req).host] =
                     [pooled |-> TRUE, sock |-> Socket(b.buf, b.end)]]
  /\ dsrv' = mapper(req).host
  /\ dpc' = "Wrap" /\ cur' = DTask
  /\ UNCHANGED <<req, dln, client, closed, responses, processing, tasks,
                 clientOut, serverOut, parsed, mapped, enq, ended, bodyStart>>
  /\ UNCHANGED <<wr, loc, pool, xr, dav>>

\* A dispatch that sends the request and queues no response handle first.
DWrap_sendFirst ==
  /\ cur = DTask /\ dpc = "Wrap"
  /\ IF mapper(req).rewriter = "raise" THEN dpc' = "Except" ELSE dpc' = "SendReq"
  /\ UNCHANGED <<cur, req, dsrv, dln, client, servers, closed, processing, responses,
                 tasks, enq, clientOut, serverOut, parsed, mapped, ended, bodyStart>>
  /\ UNCHANGED <<wr, loc, pool, xr, dav>>

\* resp = HTTPResponse(server); the rewriter, if any; sendResponse(resp)
DWrap ==
  /\ cur = DTask /\ dpc = "Wrap"
  /\ IF mapper(req).rewriter = "raise"
     THEN dpc' = "Except" /\ UNCHANGED <<responses, tasks, enq>>
     ELSE sendResponse(HTTPResponse(req.rid, dsrv), "http", <<>>) /\ dpc' = "SendReq"
  /\ UNCHANGED <<cur, req, dsrv, dln, client, servers, closed, processing,
                 clientOut, serverOut, parsed, mapped, ended, bodyStart>>
  /\ UNCHANGED <<wr, loc, pool, xr, dav>>

\* sendRequest: for ln in req: server.write(ln).  The request yields a line
\* (the Nullify sink drops it at once, a backend write blocks) ...
DSendYield ==
  /\ cur = DTask /\ dpc = "SendReq"
  /\ LET g == generateLines(req)
     IN  /\ g.op = "yield"
         /\ req' = g.hs
         /\ IF dsrv = "null"
            THEN UNCHANGED <<dpc, cur, dln>>
            ELSE dpc' = "WriteServer" /\ dln' = g.ln /\ cur' = <<>>
  /\ UNCHANGED <<dsrv, client, servers, closed, responses, processing, tasks,
                 clientOut, serverOut, parsed, mapped, enq, ended, bodyStart>>
  /\ UNCHANGED <<wr, loc, pool, xr, dav>>

\* ... or needs a line of the body from the client ...
DSendRead ==
  /\ cur = DTask /\ dpc = "SendReq"
  /\ LET g == generateLines(req)
     IN  /\ g.op = "read"
         /\ req' = g.hs
         /\ dpc' = "ReadBody" /\ cur' = <<>>
  /\ UNCHANGED <<dsrv, dln, client, servers, closed, responses, processing, tasks,
                 clientOut, serverOut, parsed, mapped, enq, ended, bodyStart>>
  /\ UNCHANGED <<wr, loc, pool, xr, dav>>

\* ... or is exhausted: back to the loop's test ...
DSendEnd ==
  /\ cur = DTask /\ dpc = "SendReq"
  /\ LET g == generateLines(req)
     IN  g.op = "end" /\ req' = g.hs
  /\ dpc' = "Loop"
  /\ UNCHANGED <<cur, dsrv, dln, client, servers, closed, responses, processing, tasks,
                 clientOut, serverOut, parsed, mapped, enq, ended, bodyStart>>
  /\ UNCHANGED <<wr, loc, pool, xr, dav>>

\* ... or raises (no separator line was read).
DSendRaise ==
  /\ cur = DTask /\ dpc = "SendReq"
  /\ LET g == generateLines(req)
     IN  g.op = "raise" /\ req' = g.hs
  /\ dpc' = "Except"
  /\ UNCHANGED <<cur, dsrv, dln, client, servers, closed, responses, processing, tasks,
                 clientOut, serverOut, parsed, mapped, enq, ended, bodyStart>>
  /\ UNCHANGED <<wr, loc, pool, xr, dav>>

\* server.write(ln) on a backend socket
DWriteServer ==
  /\ cur = <<>> /\ dpc = "WriteServer"
  /\ cur' = DTask
  /\ IF SockWriteFails(servers[dsrv].sock)
     THEN dpc' = "Except" /\ ended' = ended \cup {dsrv} /\ UNCHANGED serverOut
     ELSE /\ dpc' = "SendReq" /\ serverOut' = Append(serverOut, <<req.rid, dsrv, dln>>)
          /\ UNCHANGED ended
  /\ UNCHANGED <<req, dsrv, dln, client, servers, closed, responses, processing, tasks,
                 clientOut, parsed, mapped, enq, bodyStart>>
  /\ UNCHANGED <<wr, loc, pool, xr, dav>>

\* The request's body: ReadNBytes.readline over CallOnClose.readline.
DReadBody ==
  /\ cur = <<>> /\ dpc = "ReadBody"
  /\ LET r == SockRead(client, generateLines(req).size)
         h == Feed(req, r.ln)
     IN  /\ r.res = "line"
         /\ client' = Consume(client, r.ln)
         /\ closed' = (closed \/ r.ln = <<>>)
         /\ ended' = (IF r.ln = <<>> THEN ended \cup {"client"} ELSE ended)
         /\ req' = h
         /\ IF ~FeedYields(h, r.ln) THEN dpc' = "SendReq" /\ cur' = DTask /\ UNCHANGED dln
            ELSE IF dsrv = "null" THEN dpc' = "SendReq" /\ cur' = DTask /\ UNCHANGED dln
            ELSE dpc' = "WriteServer" /\ dln' = r.ln /\ cur' = <<>>
  /\ UNCHANGED <<dsrv, servers, responses, processing, tasks,
                 clientOut, serverOut, parsed, mapped, enq, bodyStart>>
  /\ UNCHANGED <<wr, loc, pool, xr, dav>>

DReadBodyError ==
  /\ cur = <<>> /\ dpc = "ReadBody"
  /\ SockRead(client, generateLines(req).size).res = "error"
  /\ ended' = ended \cup {"client"}
  /\ dpc' = "Except" /\ cur' = DTask
  /\ UNCHANGED <<req, dsrv, dln, client, servers, closed, responses, processing, tasks,
                 clientOut, serverOut, parsed, mapped, enq, bodyStart>>
  /\ UNCHANGED <<wr, loc, pool, xr, dav>>

\* except: print the traceback
DExcept ==
  /\ cur = DTask /\ dpc = "Except"
  /\ dpc' = "Final"
  /\ UNCHANGED <<cur, req, dsrv, dln, client, servers, closed, responses, processing,
                 tasks, clientOut, serverOut, parsed, mapped, enq, ended, bodyStart>>
  /\ UNCHANGED <<wr, loc, pool, xr, dav>>

\* self.processResponses(), the last statement of dispatch
DFinal ==
  /\ cur = DTask /\ dpc = "Final"
  /\ Spawn
  /\ dpc' = "Done" /\ cur' = <<>>
  /\ UNCHANGED <<req, dsrv, dln, client, servers, closed, responses, processing,
                 clientOut, serverOut, parsed, mapped, enq, ended, bodyStart>>
  /\ UNCHANGED <<wr, loc, pool, xr, dav>>

\* -- the drain (Dispatcher.processResponses), one microthread per spawn

\* The guard left out: every spawned drain runs.
DrainBusy_never == FALSE

\* if self._processingResps: return
DrainBusy == processing

\* resp = self._responses.pop(0)
pop0(q) == [resp |-> Head(q), rest |-> Tail(q)]

TStartBusy(t) ==
  /\ cur = <<>> /\ tasks[t].pc = "Spawned"
  /\ DrainBusy
  /\ tasks' = [tasks EXCEPT ![t].pc = "Done"]
  /\ UNCHANGED <<cur, dpc, req, dsrv, dln, client, servers, closed, responses,
                 processing, clientOut, serverOut, parsed, mapped, enq, ended, bodyStart>>
  /\ UNCHANGED <<wr, loc, pool, xr, dav>>

\* A drain that starts without setting the flag.
TStartDrain_noFlag(t) ==
  /\ cur = <<>> /\ tasks[t].pc = "Spawned"
  /\ ~DrainBusy
  /\ tasks' = [tasks EXCEPT ![t].pc = "While"]
  /\ cur' = TTask(t)
  /\ UNCHANGED <<dpc, req, dsrv, dln, client, servers, closed, responses, processing,
                 clientOut, serverOut, parsed, mapped, enq, ended, bodyStart>>
  /\ UNCHANGED <<wr, loc, pool, xr, dav>>

\* self._processingResps = True
TStartDrain(t) ==
  /\ cur = <<>> /\ tasks[t].pc = "Spawned"
  /\ ~DrainBusy
  /\ processing' = TRUE
  /\ tasks' = [tasks EXCEPT ![t].pc = "While"]
  /\ cur' = TTask(t)
  /\ UNCHANGED <<dpc, req, dsrv, dln, client, servers, closed, responses,
                 clientOut, serverOut, parsed, mapped, enq, ended, bodyStart>>
  /\ UNCHANGED <<wr, loc, pool, xr, dav>>

\* while self._responses: resp = self._responses.pop(0)
TPop(t) ==
  /\ cur = TTask(t) /\ tasks[t].pc = "While"
  /\ responses # <<>>
  /\ responses' = pop0(responses).rest
  /\ tasks' = [tasks EXCEPT ![t].pc = "NextLine", ![t].resp = pop0(responses).resp]
  /\ UNCHANGED <<cur, dpc, req, dsrv, dln, client, servers, closed,
                 processing, clientOut, serverOut, parsed, mapped, enq, ended, bodyStart>>
  /\ UNCHANGED <<wr, loc, pool, xr, dav>>

\* the queue is empty: self._processingResps = False
TFinish(t) ==
  /\ cur = TTask(t) /\ tasks[t].pc = "While"
  /\ responses = <<>>
  /\ processing' = FALSE
  /\ tasks' = [tasks EXCEPT ![t].pc = "Done", ![t].resp = NoResp, ![t].ln = <<>>]
  /\ cur' = <<>>
  /\ UNCHANGED <<dpc, req, dsrv, dln, client, servers, closed, responses,
                 clientOut, serverOut, parsed, mapped, enq, ended, bodyStart>>
  /\ UNCHANGED <<wr, loc, pool, xr, dav>>

\* for ln in resp, on a StringStream: the next line of the string, or the end
TNextString(t) ==
  /\ cur = TTask(t) /\ tasks[t].pc = "NextLine"
  /\ tasks[t].resp.kind = "string"
  /\ LET ln == readline(tasks[t].resp.str, NoSize)
     IN  IF ln = <<>>
         THEN tasks' = [tasks EXCEPT ![t].pc = "AfterResp"] /\ UNCHANGED cur
         ELSE /\ tasks' = [tasks EXCEPT ![t].pc = "WriteClient", ![t].ln = ln,
                                        ![t].resp.str = Drop(@, Len(ln))]
              /\ cur' = <<>>
  /\ UNCHANGED <<dpc, req, dsrv, dln, client, servers, closed, responses,
                 processing, clientOut, serverOut, parsed, mapped, enq, ended, bodyStart>>
  /\ UNCHANGED <<wr, loc, pool, xr, dav>>

\* for ln in resp, on an HTTPResponse: its generator yields a line, needs a
\* line of the backend, is exhausted, or raises (the microthread dies).
\* StreamWrapper.__iter__ ends the iteration also at an empty line yielded:
\* the start line of a response read at the end of the backend's stream.
TNextHTTP(t) ==
  /\ cur = TTask(t) /\ tasks[t].pc = "NextLine"
  /\ tasks[t].resp.kind = "http"
  /\ LET g == generateLines(tasks[t].resp.hs)
     IN  CASE g.op = "yield" /\ g.ln # <<>> ->
                /\ tasks' = [tasks EXCEPT ![t].pc = "WriteClient", ![t].ln = g.ln,
                                          ![t].resp.hs = g.hs]
                /\ cur' = <<>>
           [] g.op = "read" ->
                /\ tasks' = [tasks EXCEPT ![t].pc = "ReadServer", ![t].resp.hs = g.hs]
                /\ cur' = <<>>
           [] g.op = "end" \/ (g.op = "yield" /\ g.ln = <<>>) ->
                /\ tasks' = [tasks EXCEPT ![t].pc = "AfterResp", ![t].resp.hs = g.hs]
                /\ UNCHANGED cur
           [] OTHER ->
                /\ tasks' = [tasks EXCEPT ![t].pc = "Crashed", ![t].resp.hs = g.hs]
                /\ cur' = <<>>
  /\ UNCHANGED <<dpc, req, dsrv, dln, client, servers, closed, responses,
                 processing, clientOut, serverOut, parsed, mapped, enq, ended, bodyStart>>
  /\ UNCHANGED <<wr, loc, pool, xr, dav>>

\* A line of the backend, through CallOnClose.readline.
TReadServer(t) ==
  /\ cur = <<>> /\ tasks[t].pc = "ReadServer"
  /\ LET d == tasks[t].resp.hs.src
         r == SockRead(servers[d].sock, generateLines(tasks[t].resp.hs).size)
         h == Feed(tasks[t].resp.hs, r.ln)
     IN  /\ r.res = "line"
         /\ servers' = [servers EXCEPT ![d].sock = Consume(@, r.ln)]
         /\ closed' = (closed \/ r.ln = <<>>)
         /\ ended' = (IF r.ln = <<>> THEN ended \cup {d} ELSE ended)
         /\ IF FeedYields(h, r.ln)
            THEN /\ tasks' = [tasks EXCEPT ![t].pc = "WriteClient", ![t].ln = r.ln,
                                           ![t].resp.hs = h]
                 /\ UNCHANGED cur
            ELSE /\ tasks' = [tasks EXCEPT ![t].pc = "NextLine", ![t].resp.hs = h]
                 /\ cur' = TTask(t)
  /\ UNCHANGED <<dpc, req, dsrv, dln, client, responses,
                 processing, clientOut, serverOut, parsed, mapped, enq, bodyStart>>
  /\ UNCHANGED <<wr, loc, pool, xr, dav>>

\* The read raises: nothing in processResponses catches it.
TReadServerError(t) ==
  /\ cur = <<>> /\ tasks[t].pc = "ReadServer"
  /\ LET d == tasks[t].resp.hs.src
     IN  SockRead(servers[d].sock, generateLines(tasks[t].resp.hs).size).res = "error"
  /\ ended' = ended \cup {tasks[t].resp.hs.src}
  /\ tasks' = [tasks EXCEPT ![t].pc = "Crashed"]
  /\ UNCHANGED <<cur, dpc, req, dsrv, dln, client, servers, closed, responses,
                 processing, clientOut, serverOut, parsed, mapped, enq, bodyStart>>
  /\ UNCHANGED <<wr, loc, pool, xr, dav>>

\* try: self.client.write(ln) except (IOError, socket.error): break
TWriteClient(t) ==
  /\ cur = <<>> /\ tasks[t].pc = "WriteClient"
  /\ cur' = TTask(t)
  /\ IF SockWriteFails(client)
     THEN /\ tasks' = [tasks EXCEPT ![t].pc = "AfterResp"]
          /\ ended' = ended \cup {"client"}
          /\ UNCHANGED clientOut
     ELSE /\ tasks' = [tasks EXCEPT ![t].pc = "NextLine"]
          /\ UNCHANGED ended
          /\ clientOut' = Append(clientOut, <<tasks[t].resp.rid, tasks[t].ln>>)
  /\ UNCHANGED <<dpc, req, dsrv, dln, client, servers, closed, responses,
                 processing, serverOut, parsed, mapped, enq, bodyStart>>
  /\ UNCHANGED <<wr, loc, pool, xr, dav>>

\* if self._closed: self.doclose()
TAfterResp(t) ==
  /\ cur = TTask(t) /\ tasks[t].pc = "AfterResp"
  /\ IF closed THEN doclose ELSE UNCHANGED <<client, servers>>
  /\ tasks' = [tasks EXCEPT ![t].pc = "While"]
  /\ UNCHANGED <<cur, dpc, req, dsrv, dln, closed, responses,
                 processing, clientOut, serverOut, parsed, mapped, enq, ended, bodyStart>>
  /\ UNCHANGED <<wr, loc, pool, xr, dav>>

Dispatch ==
  \/ DLoop \/ DReadLine \/ DReadError \/ DParsed \/ DBad \/ DRoute \/ DNotFound
  \/ DConnect \/ DWrap \/ DSendYield \/ DSendRead \/ DSendEnd \/ DSendRaise
  \/ DWriteServer \/ DReadBody \/ DReadBodyError \/ DExcept \/ DFinal

Drain(t) ==
  \/ TStartBusy(t) \/ TStartDrain(t) \/ TPop(t) \/ TFinish(t) \/ TNextString(t)
  \/ TNextHTTP(t) \/ TReadServer(t) \/ TReadServerError(t) \/ TWriteClient(t)
  \/ TAfterResp(t)

Next == Dispatch \/ \E t \in TaskIds : Drain(t)

Spec == Init /\ [][Next]_vars

\* ----------------------------------------------------------- HTTPRewriter
\* One HTTPRewriter over one HTTPStream, and a consumer that pulls its lines
\* until the end.  wr.pc is where the wrapper's generator stands:
\*   Parse    the message's start line and headers are being read
\*   Headers  rwHeaders, then the start line is yielded
\*   Body     hasCL is settled and rwBody installed
\*   Buffer   the rewritten body is read whole into a list
\*   Rest     the lines of the stream are yielded on
\*   Done / Raised
\* wr.out is the history of the lines yielded, wr.log that of the body chunks
\* read ("r") and yielded ("e").

\* Body bytes a message holds at most.
MaxBody == 3

BodyBytes == {"x", "d", LF}
Bodies == UNION {[1..n -> BodyBytes] : n \in 0..MaxBody}

RequestLines == {ReqLine("/a"), <<"GET", SP, SP, "/a", SP, "HTTP/1.1", CR, LF>>}
HostLines ==
  {HostLine, <<"Host", COLON, "h", "o", CR, LF>>, <<"Host", COLON, SP, "h", LF>>}
CLLines == {<<>>} \cup {CLLine(n) : n \in 0..MaxBody}

\* The hooks a subclass of HTTPRewriter may have.
HeaderHooks == {"none", "relocate"}
BodyHooks == {"none", "same", "map"}

\* Relocator.RewriteRequest.rwHeaders: Host becomes the remote host (the
\* messages have no Destination); RewriteResponse.rwHeaders finds no Location.
rwHeaders(kind, hs) ==
  IF kind = "relocate" /\ hs.isReq THEN hdrUpdate(hs.headers, HOST, <<"r">>)
  ELSE hs.headers

\* RewriteRequest.rwHeaders, its last statement:
\*   self.stream.reqURI = self.parent.rewriteLocal(self.stream.reqURI)
\* for a parent whose local root has the path /a and whose remote root has
\* the path /b.
rwReqURI(kind, hs) ==
  IF kind = "relocate" /\ hs.isReq
  THEN [hs EXCEPT !.bits[2] = IF @ = <<"/a">> THEN <<"/b">> ELSE @]
  ELSE hs

\* rwBody: the body itself (return bodyIn) or a rewriting stream over it.
rwBody(kind, hs) == IF kind = "map" THEN [hs EXCEPT !.body = "map"] ELSE hs

\* hasCL = hdr.CONTENT_LENGTH(headers) not in (None, "", "0")
hasCL(hs) == hdrCall(hs.headers, CONTENT_LENGTH).val \notin {<<>>, <<"0">>}

NewRewriter(isReq, msg, cl, rwH, rwB) ==
  [pc |-> "Parse", src |-> Socket(msg, "eof"),
   hs |-> [NewStream(isReq, 1, "src") EXCEPT !.gen = "P1"],
   rwH |-> rwH, rwB |-> rwB, buf |-> <<>>, newCL |-> 0,
   out |-> <<>>, log |-> <<>>, orig |-> msg, clLine |-> cl]

\* The dispatcher of a connection nobody made.
IdleDispatcher ==
  /\ cur = <<>> /\ dpc = "Done"
  /\ req = NewStream(TRUE, 0, "client") /\ dsrv = "null" /\ dln = <<>>
  /\ client = Socket(<<>>, "hang")
  /\ servers = [d \in Dest |-> [pooled |-> FALSE, sock |-> Socket(<<>>, "hang")]]
  /\ closed = FALSE /\ responses = <<>> /\ processing = FALSE
  /\ tasks = [t \in TaskIds |-> [pc |-> "None", resp |-> NoResp, ln |-> <<>>]]
  /\ clientOut = <<>> /\ serverOut = <<>> /\ parsed = <<>> /\ mapped = {}
  /\ enq = <<>> /\ ended = {} /\ bodyStart = <<>>

InitRewriter ==
  /\ IdleDispatcher
  /\ loc = NoRelocator /\ pool = NoPool /\ xr = NoXml /\ dav = NoDav
  /\ \E isReq \in BOOLEAN, h \in HostLines, cl \in CLLines, b \in Bodies,
        rwH \in HeaderHooks, rwB \in BodyHooks :
       \E s \in (IF isReq THEN RequestLines ELSE {StatusLine}) :
         wr = NewRewriter(isReq, s \o h \o cl \o Blank \o b, cl, rwH, rwB)

\* HTTPStream.parse (in HTTPRequest.__init__ for a request, in the wrapper's
\* generator for a response), one readline; then HTTPRequest's checks.
WParse ==
  /\ wr.pc = "Parse"
  /\ LET r  == SockRead(wr.src, NoSize)
         h1 == Feed(wr.hs, r.ln)
         h2 == IF h1.parsed /\ h1.isReq THEN HTTPRequestInit(h1) ELSE h1
     IN  /\ r.res = "line"
         /\ wr' = [wr EXCEPT !.src = Consume(@, r.ln), !.hs = h2,
                             !.pc = IF ~h1.parsed THEN "Parse"
                                    ELSE IF h2.valid THEN "Headers" ELSE "Invalid"]
  /\ UNCHANGED <<dvars, loc, pool, xr, dav>>

\* A wrapper that yields the start line and calls the header hook after it.
WHeaders_startFirst ==
  /\ wr.pc = "Headers"
  /\ LET r == generateLines(wr.hs)
         h == rwReqURI(wr.rwH, [r.hs EXCEPT !.headers = rwHeaders(wr.rwH, wr.hs)])
     IN  wr' = [wr EXCEPT !.hs = h,
                          !.out = Append(@, [kind |-> "start", ln |-> r.ln]),
                          !.pc = IF r.ln = <<>> THEN "Done" ELSE "Body"]
  /\ UNCHANGED <<dvars, loc, pool, xr, dav>>

\* self.rwHeaders(self.stream.headers); yield self.stream.readline()
WHeaders ==
  /\ wr.pc = "Headers"
  /\ LET h == rwReqURI(wr.rwH, [wr.hs EXCEPT !.headers = rwHeaders(wr.rwH, wr.hs)])
         r == generateLines(h)
     IN  wr' = [wr EXCEPT !.hs = r.hs,
                          !.out = Append(@, [kind |-> "start", ln |-> r.ln]),
                          !.pc = IF r.ln = <<>> THEN "Done" ELSE "Body"]
  /\ UNCHANGED <<dvars, loc, pool, xr, dav>>

\* hasCL; self.stream.body = self.rwBody(self.stream.body)
WBody ==
  /\ wr.pc = "Body"
  /\ IF wr.rwB = "none"
     THEN wr' = [wr EXCEPT !.pc = "Rest"]
     ELSE wr' = [wr EXCEPT !.hs = rwBody(wr.rwB, @),
                           !.pc = IF hasCL(wr.hs) THEN "Buffer" ELSE "Rest"]
  /\ UNCHANGED <<dvars, loc, pool, xr, dav>>

\* The list is complete: self.stream.body = body and Content-Length is set.
bufferDone(h) ==
  [wr EXCEPT !.hs = [h EXCEPT !.gen = wr.hs.gen, !.body = "list",
                              !.blist = wr.buf, !.bi = 1,
                              !.headers = hdrUpdate(@, CONTENT_LENGTH, str(wr.newCL))],
             !.pc = "Rest"]

\* for ln in self.stream.body: body.append(ln); newCL += len(ln), one turn
WBuffer ==
  /\ wr.pc = "Buffer"
  /\ LET r == generateBody(wr.hs)
     IN  IF r.op = "end" THEN wr' = bufferDone(r.hs)
         ELSE LET s  == SockRead(wr.src, r.size)
                  h  == takeBody(r.hs, s.ln)
                  ln == bodyOut(r.hs, s.ln)
              IN  /\ s.res = "line"
                  /\ IF ln = <<>>
                     THEN wr' = [bufferDone(h) EXCEPT !.src = Consume(@, s.ln)]
                     ELSE wr' = [wr EXCEPT !.src = Consume(@, s.ln), !.hs = h,
                                           !.buf = Append(@, ln),
                                           !.newCL = @ + Len(ln),
                                           !.log = Append(@, "r")]
  /\ UNCHANGED <<dvars, loc, pool, xr, dav>>

\* The part of the message that a line yielded at h belongs to.
lineKind(h) ==
  IF h.gen = "GB" THEN "body"
  ELSE IF h.gen = "GH" /\ h.gi <= Len(h.headers) THEN "header"
  ELSE "sep"

\* for ln in self.stream: yield ln, one turn
WRest ==
  /\ wr.pc = "Rest"
  /\ LET r == generateLines(wr.hs)
     IN  CASE r.op = "yield" ->
                wr' = [wr EXCEPT !.hs = r.hs,
                                 !.out = Append(@, [kind |-> lineKind(wr.hs), ln |-> r.ln]),
                                 !.log = IF lineKind(wr.hs) = "body" THEN Append(@, "e") ELSE @]
           [] r.op = "read" ->
                LET s == SockRead(wr.src, r.size)
                    h == Feed(r.hs, s.ln)
                IN  /\ s.res = "line"
                    /\ IF FeedYields(h, s.ln)
                       THEN wr' = [wr EXCEPT !.src = Consume(@, s.ln), !.hs = h,
                                             !.out = Append(@, [kind |-> "body",
                                                                ln |-> bodyOut(r.hs, s.ln)]),
                                             !.log = @ \o <<"r", "e">>]
                       ELSE wr' = [wr EXCEPT !.src = Consume(@, s.ln), !.hs = h]
           [] r.op = "end" -> wr' = [wr EXCEPT !.hs = r.hs, !.pc = "Done"]
           [] OTHER -> wr' = [wr EXCEPT !.hs = r.hs, !.pc = "Raised"]
  /\ UNCHANGED <<dvars, loc, pool, xr, dav>>

NextRewriter == WParse \/ WHeaders \/ WBody \/ WBuffer \/ WRest

SpecRewriter == InitRewriter /\ [][NextRewriter]_vars

\* -------------------------------------------------------------- Relocator
\* One Relocator and one url it rewrites.  A url is a string of symbols:
\* "http:", "/", and one symbol for a host name or a path segment.

\* Symbols a url holds at most after a prefix taken from the roots.
MaxRest == 3

startswith(s, p) == Len(s) >= Len(p) /\ Take(s, Len(p)) = p

\* urlparse(url): scheme, netloc and path; hostname is None without a netloc.
urlparse(url) ==
  LET hasScheme == url # <<>> /\ url[1] = "http:"
      rest      == IF hasScheme THEN Tail(url) ELSE url
      hasNet    == startswith(rest, <<"/", "/">>)
      afterNet  == Drop(rest, 2)
      k         == find(afterNet, "/")
      netloc    == IF ~hasNet THEN <<>> ELSE IF k < 0 THEN afterNet ELSE Take(afterNet, k)
      path      == IF ~hasNet THEN rest ELSE Drop(afterNet, Len(netloc))
  IN  [scheme |-> IF hasScheme THEN <<"http">> ELSE <<>>,
       netloc |-> netloc, path |-> path,
       hostname |-> [isNone |-> netloc = <<>>, val |-> netloc]]

\* UrlInfo.__init__
UrlInfo(url) ==
  LET u    == IF url[Len(url)] = "/" THEN Take(url, Len(url) - 1) ELSE url
      info == urlparse(u)
  IN  [url |-> u,
       path |-> IF info.path = <<>> THEN <<"/">> ELSE info.path,
       host |-> info.hostname]

\* A string that is not None.
Some(s) == [isNone |-> FALSE, val |-> s]

\* A rewriting that matches a prefix wherever it ends.
rewrite_anyPrefix(url, inU, outU) ==
  IF startswith(url, inU.url) THEN Some(outU.url \o Drop(url, Len(inU.url)))
  ELSE IF startswith(url, inU.path) THEN Some(outU.path \o Drop(url, Len(inU.path)))
  ELSE IF ~inU.host.isNone /\ url = inU.host.val THEN outU.host
  ELSE Some(url)

\* Relocator._rewrite
rewrite(url, inU, outU) ==
  LET p1 == Drop(url, Len(inU.url))
      p2 == Drop(url, Len(inU.path))
  IN  IF startswith(url, inU.url) /\ (p1 = <<>> \/ p1[1] = "/")
      THEN Some(outU.url \o p1)
      ELSE IF startswith(url, inU.path) /\ (p2 = <<>> \/ p2[1] = "/")
      THEN Some(outU.path \o p2)
      ELSE IF ~inU.host.isNone /\ url = inU.host.val
      THEN outU.host
      ELSE Some(url)

\* A rewriteRemote that rewrites in the direction of rewriteLocal.
rewriteRemote_forward(url, local, remote) == rewrite(url, local, remote)

\* Relocator.rewriteLocal and Relocator.rewriteRemote
rewriteLocal(url, local, remote) == rewrite(url, local, remote)
rewriteRemote(url, local, remote) == rewrite(url, remote, local)

LocalRoots ==
  { <<"http:", "/", "/", "l">>,
    <<"http:", "/", "/", "l", "/", "a">>,
    <<"http:", "/", "/", "l", "/", "a", "/">> }
RemoteRoots ==
  { <<"http:", "/", "/", "r">>,
    <<"http:", "/", "/", "r", "/">>,
    <<"http:", "/", "/", "r", "/", "b">> }

RestBytes == {"/", "a", "l", "x"}
Rests == UNION {[1..n -> RestBytes] : n \in 0..MaxRest}

\* The urls: a prefix that a root gives, or none, and any rest.
Urls(local, remote) ==
  LET prefixes == {<<>>, local.url, local.path, local.host.val,
                   remote.url, remote.path, remote.host.val}
  IN  {p \o s : p \in prefixes, s \in Rests}

\* Relocator.__init__, and a url to rewrite.
InitRelocator ==
  /\ IdleDispatcher
  /\ wr = NoRewriter /\ pool = NoPool /\ xr = NoXml /\ dav = NoDav
  /\ \E l \in LocalRoots, r \in RemoteRoots :
       \E url \in Urls(UrlInfo(l), UrlInfo(r)) :
         loc = [pc |-> "Ready", local |-> UrlInfo(l), remote |-> UrlInfo(r),
                url |-> url, op |-> "none", result |-> Some(<<>>),
                back |-> Some(<<>>)]

RewriteLocal ==
  /\ loc.pc = "Ready"
  /\ loc' = [loc EXCEPT !.pc = "Done", !.op = "local",
                        !.result = rewriteLocal(loc.url, loc.local, loc.remote)]
  /\ UNCHANGED <<dvars, wr, pool, xr, dav>>

RewriteRemote ==
  /\ loc.pc = "Ready"
  /\ loc' = [loc EXCEPT !.pc = "Done", !.op = "remote",
                        !.result = rewriteRemote(loc.url, loc.local, loc.remote)]
  /\ UNCHANGED <<dvars, wr, pool, xr, dav>>

\* The url that came out is rewritten in the other direction.
RewriteBack ==
  /\ loc.pc = "Done" /\ ~loc.result.isNone
  /\ loc' = [loc EXCEPT !.pc = "Back",
                        !.back = IF loc.op = "local"
                                 THEN rewriteRemote(loc.result.val, loc.local, loc.remote)
                                 ELSE rewriteLocal(loc.result.val, loc.local, loc.remote)]
  /\ UNCHANGED <<dvars, wr, pool, xr, dav>>

NextRelocator == RewriteLocal \/ RewriteRemote \/ RewriteBack

SpecRelocator == InitRelocator /\ [][NextRelocator]_vars

\* ------------------------------------------------------------ server pools
\* Two Dispatchers, each with its own dictionary self.servers, their requests
\* reduced to the destinations the mapper gives them.  connect_tcp makes a
\* new socket at every call: the sockets are numbered as they are made, and
\* 0 is the missing key.  pool.calls is the history of the _getServer calls.

\* _getServer calls made at most.
MaxCalls == 4

Dispatchers == {1, 2}

InitPool ==
  /\ IdleDispatcher
  /\ wr = NoRewriter /\ loc = NoRelocator /\ xr = NoXml /\ dav = NoDav
  /\ pool = [pc |-> "Serving",
             servers |-> [p \in Dispatchers |-> [d \in Dest |-> 0]],
             made |-> 0, calls |-> <<>>]

\* A lookup that never finds the key.
pooled_never(p, d) == FALSE

\* self.servers[destn] does not raise KeyError
pooled(p, d) == pool.servers[p][d] # 0

\* return self.servers[destn]
GetServerPooled(p, d) ==
  /\ pool.pc = "Serving" /\ Len(pool.calls) < MaxCalls
  /\ pooled(p, d)
  /\ pool' = [pool EXCEPT !.calls = Append(@, [disp |-> p, destn |-> d,
                                               server |-> pool.servers[p][d],
                                               connected |-> FALSE])]
  /\ UNCHANGED <<dvars, wr, loc, xr, dav>>

\* except KeyError: connect_tcp, CallOnClose, self.servers[destn] = server
GetServerConnect(p, d) ==
  /\ pool.pc = "Serving" /\ Len(pool.calls) < MaxCalls
  /\ ~pooled(p, d)
  /\ LET s == pool.made + 1
     IN  pool' = [pool EXCEPT !.made = s, !.servers[p][d] = s,
                              !.calls = Append(@, [disp |-> p, destn |-> d,
                                                   server |-> s, connected |-> TRUE])]
  /\ UNCHANGED <<dvars, wr, loc, xr, dav>>

NextPool ==
  \E p \in Dispatchers, d \in Dest : GetServerPooled(p, d) \/ GetServerConnect(p, d)

SpecPool == InitPool /\ [][NextPool]_vars

\* ------------------------------------------------------------ XMLRewriter
\* An XMLRewriter over the events that expat reports for a well-formed
\* document without attributes: the start of an element, its end, and
\* character data.  The element h is registered in rw_content, the element e
\* is not; rewrite is the rewriteRemote of a relocator.  _output is flushed to
\* the reader at the end of every chunk, and a chunk may end after any event.
MaxEvents == 6

Names == {"h", "e"}
rw_content(name) == name = "h"
Data == { <<"/", "b">>, <<"/", "x">> }
Events ==
  [t : {"S", "E"}, v : Names] \cup [t : {"C"}, v : Data]

\* The number of elements open after the first k events of d.
Depth(d, k) ==
  Cardinality({i \in 1..k : d[i].t = "S"}) - Cardinality({i \in 1..k : d[i].t = "E"})

\* The end tag of the element that the event i of d starts.
Match(d, i) ==
  CHOOSE j \in (i + 1)..Len(d) :
    /\ Depth(d, j) = Depth(d, i) - 1
    /\ \A k \in i..(j - 1) : Depth(d, k) >= Depth(d, i)

\* What expat accepts: one root element, tags nested and matched by name.
WellFormed(d) ==
  /\ d[1].t = "S" /\ Depth(d, Len(d)) = 0
  /\ \A k \in 1..(Len(d) - 1) : Depth(d, k) >= 1
  /\ \A i \in 1..Len(d) : d[i].t = "S" => d[Match(d, i)].v = d[i].v

Documents ==
  {d \in UNION {[1..n -> Events] : n \in 2..MaxEvents} : WellFormed(d)}

\* self.rewrite of a DAV response: parent.rewriteRemote
XmlLocal == UrlInfo(<<"http:", "/", "/", "l", "/", "a">>)
XmlRemote == UrlInfo(<<"http:", "/", "/", "r", "/", "b">>)
xmlRewrite(c) == rewriteRemote(c, XmlLocal, XmlRemote).val

StartTag(name) == <<"<", name, ">">>
EndTag(name) == <<"<", "/", name, ">">>

NewXml(d) ==
  [pc |-> "Parse", doc |-> d, i |-> 1,
   content |-> [isNone |-> TRUE, val |-> <<>>],
   output |-> <<>>, yielded |-> <<>>, calls |-> <<>>]

InitXml ==
  /\ IdleDispatcher
  /\ wr = NoRewriter /\ loc = NoRelocator /\ pool = NoPool
  /\ dav = NoDav
  /\ \E d \in Documents : xr = NewXml(d)

\* XMLRewriter.CharacterData on the rewriter x
CharacterData(x, data) ==
  IF ~x.content.isNone
  THEN [x EXCEPT !.content.val = @ \o data]
  ELSE [x EXCEPT !.output = Append(@, data)]

\* parser.Parse reports the start of an element
XStartElement ==
  /\ xr.pc = "Parse" /\ xr.i <= Len(xr.doc) /\ xr.doc[xr.i].t = "S"
  /\ LET name == xr.doc[xr.i].v
         x1   == IF rw_content(name)
                 THEN [xr EXCEPT !.content = [isNone |-> FALSE, val |-> <<>>]]
                 ELSE xr
     IN  xr' = [x1 EXCEPT !.output = Append(@, StartTag(name)), !.i = @ + 1]
  /\ UNCHANGED <<dvars, wr, loc, pool, dav>>

\* parser.Parse reports the end of an element
XEndElement ==
  /\ xr.pc = "Parse" /\ xr.i <= Len(xr.doc) /\ xr.doc[xr.i].t = "E"
  /\ LET name == xr.doc[xr.i].v
         c    == xr.content
         x1   == IF ~c.isNone
                 THEN CharacterData([xr EXCEPT !.content = [isNone |-> TRUE, val |-> <<>>],
                                               !.calls = Append(@, <<xr.i, c.val>>)],
                                    xmlRewrite(c.val))
                 ELSE xr
     IN  xr' = [x1 EXCEPT !.output = Append(@, EndTag(name)), !.i = @ + 1]
  /\ UNCHANGED <<dvars, wr, loc, pool, dav>>

\* parser.Parse reports character data
XCharacterData ==
  /\ xr.pc = "Parse" /\ xr.i <= Len(xr.doc) /\ xr.doc[xr.i].t = "C"
  /\ xr' = [CharacterData(xr, xr.doc[xr.i].v) EXCEPT !.i = @ + 1]
  /\ UNCHANGED <<dvars, wr, loc, pool, dav>>

\* The chunk ends: for result in self._output: yield result; self._output = []
XYield ==
  /\ xr.pc = "Parse" /\ xr.i <= Len(xr.doc) /\ xr.output # <<>>
  /\ xr' = [xr EXCEPT !.yielded = @ \o xr.output, !.output = <<>>]
  /\ UNCHANGED <<dvars, wr, loc, pool, dav>>

\* The stream ends: parser.Parse("", True) and the last results are yielded.
XFinish ==
  /\ xr.pc = "Parse" /\ xr.i > Len(xr.doc)
  /\ xr' = [xr EXCEPT !.yielded = @ \o xr.output, !.output = <<>>, !.pc = "Done"]
  /\ UNCHANGED <<dvars, wr, loc, pool, dav>>

NextXml == XStartElement \/ XEndElement \/ XCharacterData \/ XYield \/ XFinish

SpecXml == InitXml /\ [][NextXml]_vars

\* ------------------------------------------------- DAVRelocator, SVNRelocator
\* The rwBody hooks of the WebDAV and Subversion relocators, called for the
\* request and then for the response of one exchange.  A method and a header
\* value are single symbols; a Content-Type with parameters is the type, ";"
\* and the parameters.
CONTENT_TYPE == <<"Content-Type">>

\* str.upper
upper(s) ==
  [i \in 1..Len(s) |->
     CASE s[i] = "propfind" -> "PROPFIND" [] s[i] = "get" -> "GET" [] OTHER -> s[i]]

\* DAVRelocator._filter_methods and SVNRelocator._filter_methods
filter_methods ==
  { <<"OPTIONS">>, <<"PROPFIND">>, <<"REPORT">>, <<"MKACTIVITY">>, <<"PROPPATCH">>,
    <<"CHECKOUT">>, <<"MKCOL">>, <<"MOVE">>, <<"COPY">>, <<"LOCK">>, <<"UNLOCK">>,
    <<"MERGE">> }

\* _checkContentType
checkContentType(headers, ctype) ==
  LET ct == hdrCall(headers, CONTENT_TYPE).val
      k  == find(ct, ";")
  IN  (IF ct # <<>> /\ k >= 0 THEN Take(ct, k) ELSE ct) = ctype

\* RewriteRequest.rwBody: bodyIn, or an XMLRewriter over it
RewriteRequest_rwBody(cls, method, headers) ==
  IF upper(method) \notin filter_methods
  THEN [xml |-> FALSE, rewrite |-> "none", rw_content |-> {}]
  ELSE IF hdrCall(headers, CONTENT_LENGTH).val \in {<<>>, <<"0">>}
  THEN [xml |-> FALSE, rewrite |-> "none", rw_content |-> {}]
  ELSE [xml |-> TRUE, rewrite |-> "rewriteLocal",
        rw_content |-> IF cls = "SVN" THEN {"D:href", "S:src-path"} ELSE {"D:href"}]

\* RewriteResponse.rwBody: bodyIn, or an XMLRewriter over it
RewriteResponse_rwBody(cls, method, headers) ==
  IF upper(method) \notin filter_methods
  THEN [xml |-> FALSE, rewrite |-> "none", rw_content |-> {}]
  ELSE IF ~checkContentType(headers, <<"text/xml">>)
  THEN [xml |-> FALSE, rewrite |-> "none", rw_content |-> {}]
  ELSE [xml |-> TRUE, rewrite |-> "rewriteRemote", rw_content |-> {"D:href"}]

\* One exchange: the relocator's class, the request's method, the headers of
\* the request and those of the response.
InitDav ==
  /\ IdleDispatcher
  /\ wr = NoRewriter /\ loc = NoRelocator /\ pool = NoPool /\ xr = NoXml
  /\ LET types   == { <<>>, <<<<CONTENT_TYPE, <<"text/xml">>>>>>,
                      <<<<CONTENT_TYPE, <<"text/xml", ";", "charset=utf-8">>>>>>,
                      <<<<CONTENT_TYPE, <<"text/html">>>>>> }
         lengths == { <<>>, <<<<CONTENT_LENGTH, <<"0">>>>>>, <<<<CONTENT_LENGTH, <<"5">>>>>> }
         methods == { <<"PROPFIND">>, <<"propfind">>, <<"MOVE">>, <<"GET">> }
     IN  \E cls \in {"DAV", "SVN"}, m \in methods, qt \in types, ql \in lengths,
            pt \in types :
           dav = [pc |-> "Request", cls |-> cls, method |-> m,
                  reqHeaders |-> qt \o ql, respHeaders |-> pt,
                  reqBody |-> [xml |-> FALSE, rewrite |-> "none", rw_content |-> {}],
                  respBody |-> [xml |-> FALSE, rewrite |-> "none", rw_content |-> {}]]

\* self.stream.body = self.rwBody(self.stream.body) in the request's wrapper
RwRequestBody ==
  /\ dav.pc = "Request"
  /\ dav' = [dav EXCEPT !.pc = "Response",
                        !.reqBody = RewriteRequest_rwBody(dav.cls, dav.method, dav.reqHeaders)]
  /\ UNCHANGED <<dvars, wr, loc, pool, xr>>

\* self.stream.body = self.rwBody(self.stream.body) in the response's wrapper
RwResponseBody ==
  /\ dav.pc = "Response"
  /\ dav' = [dav EXCEPT !.pc = "Done",
                        !.respBody = RewriteResponse_rwBody(dav.cls, dav.method, dav.respHeaders)]
  /\ UNCHANGED <<dvars, wr, loc, pool, xr>>

NextDav == RwRequestBody \/ RwResponseBody

SpecDav == InitDav /\ [][NextDav]_vars

\* ----------------------------------------------------------------- claims

\* Every microthread of the dispatcher has ended (or died).
Quiescent ==
  /\ dpc = "Done" /\ cur = <<>>
  /\ \A t \in TaskIds : tasks[t].pc \in {"None", "Done", "Crashed"}

\* The client socket and every pooled backend socket are closed.
AllClosed == client.closed /\ \A d \in Dest : servers[d].pooled => servers[d].sock.closed

\* The requests (rid) for which a response was queued.
Enqueued(r) == {k \in 1..Len(enq) : enq[k][1] = r}

\* C1: the lines written to the client are the responses in the order their
\* requests were read: every line of response N precedes every line of
\* response N+1, and the lines of two responses are never interleaved.
C1_ResponsesInOrder ==
  \A i, j \in 1..Len(clientOut) : i < j => clientOut[i][1] <= clientOut[j][1]

\* C1 witness: two backend responses were written to the client, the first
\* whole (its body line included) before the second began.
C1_Witness ==
  /\ Len(enq) >= 2 /\ enq[1][2] = "http" /\ enq[2][2] = "http"
  /\ \E i, j \in 1..Len(clientOut) :
       /\ i < j
       /\ clientOut[i] = <<1, <<"z">>>>
       /\ clientOut[j][1] = 2

\* C2: an invalid request gets exactly the literal 400 response (declared
\* length 0) queued, the session is marked closed, the mapper is not invoked
\* for it, no line of it is written to a backend and no further request is
\* parsed.
C2_InvalidRequest ==
  \A r \in 1..Len(parsed) :
    (~parsed[r].valid /\ ~(dpc = "Bad" /\ req.rid = r)) =>
      /\ \E k \in 1..Len(enq) : Enqueued(r) = {k} /\ enq[k] = <<r, "400", Resp400>>
      /\ LET l1 == readline(Resp400, NoSize)
             l2 == readline(Drop(Resp400, Len(l1)), NoSize)
             l3 == readline(Drop(Resp400, Len(l1) + Len(l2)), NoSize)
         IN  /\ split(l1)[2] = <<"400">>
             /\ parseHeader(l2) = <<CONTENT_LENGTH, <<"0">>>>
             /\ isspace(l3)
             /\ Len(l1) + Len(l2) + Len(l3) = Len(Resp400)
      /\ closed
      /\ r \notin mapped
      /\ \A k \in 1..Len(serverOut) : serverOut[k][1] # r
      /\ Len(parsed) = r /\ req.rid = r

\* C2 witness: after a request that was forwarded, a request with a broken
\* start line was answered 400 and dispatch ended.
C2_Witness ==
  /\ dpc = "Done" /\ Len(parsed) = 2
  /\ parsed[1].valid /\ ~parsed[2].valid /\ ~parsed[2].eof
  /\ serverOut # <<>>
  /\ enq[Len(enq)] = <<2, "400", Resp400>>

\* The request dispatch holds is valid and the mapper has no mapping for it,
\* and its 404 has been queued.
Unmapped ==
  /\ Len(parsed) >= 1 /\ req.rid = Len(parsed) /\ parsed[req.rid].valid
  /\ mapper(req).kind = "none"
  /\ dpc \notin {"Route", "NotFound"}

Min(a, b) == IF a < b THEN a ELSE b

\* C3: an unmapped request gets exactly the literal 404 response (declared
\* length 9, body "Not Found") queued; its declared body is read off the
\* client and no line of it is written to a backend; the session is not
\* marked closed by it, and dispatch is back at the loop's test.
C3_NotFound ==
  Unmapped =>
    /\ \E k \in 1..Len(enq) : Enqueued(req.rid) = {k} /\ enq[k] = <<req.rid, "404", Resp404>>
    /\ LET l1 == readline(Resp404, NoSize)
           l2 == readline(Drop(Resp404, Len(l1)), NoSize)
           l3 == readline(Drop(Resp404, Len(l1) + Len(l2)), NoSize)
           body == Drop(Resp404, Len(l1) + Len(l2) + Len(l3))
       IN  /\ split(l1)[2] = <<"404">>
           /\ parseHeader(l2) = <<CONTENT_LENGTH, <<"9">>>>
           /\ isspace(l3)
           /\ body = <<"N", "o", "t", " ", "F", "o", "u", "n", "d">>
    /\ dsrv = "null"
    /\ \A k \in 1..Len(serverOut) : serverOut[k][1] # req.rid
    /\ dpc \in {"SendReq", "ReadBody", "Loop", "Except", "Final", "Done"}
    /\ dpc = "Loop" =>
         /\ client.buf = Drop(bodyStart, Min(getContentLength(req).n, Len(bodyStart)))
         /\ ended = {} => ~closed

\* C3 witness: an unmapped request with a body has been read off whole, the
\* session is open and dispatch is about to read the next request.
C3_Witness ==
  /\ Unmapped /\ dpc = "Loop" /\ ~closed
  /\ getContentLength(req).n = 2
  /\ Len(bodyStart) = Len(client.buf) + 2
  /\ client.buf # <<>>

\* C4: the sockets are closed only when no queued response waits to be
\* written: the step that closes the client socket finds the queue empty.
C4_CloseAfterFlush ==
  [][(~client.closed /\ client.closed') => responses = <<>>]_vars

\* C5: once a socket of the session has reached its end or failed, the client
\* socket and every pooled backend socket get closed: when every microthread
\* of the dispatcher has ended, they are.
C5_EndClosesAll == (Quiescent /\ ended # {}) => AllClosed

\* C6: when the client's stream ends where a request is awaited, no response
\* is queued for it and the mapper is not invoked for it.
C6_EofQueuesNothing ==
  /\ \A k \in 1..Len(enq) : ~parsed[enq[k][1]].eof
  /\ \A r \in mapped : ~parsed[r].eof

\* The mapper, or the rewriter of the mapping, raised on the last request.
Raised ==
  /\ Len(parsed) >= 1 /\ req.rid = Len(parsed) /\ parsed[req.rid].valid
  /\ (mapper(req).kind = "raise" \/ mapper(req).rewriter = "raise")

\* C7: after the mapper or the rewriter raised, the session reaches Closed:
\* when every microthread has ended, the session is marked closed, the queue
\* has been written out and the client and all pooled backend sockets are
\* closed.
C7_RaiseClosesSession ==
  (Quiescent /\ Raised) => (closed /\ responses = <<>> /\ AllClosed)

\* The bytes of a history of lines yielded.
Bytes(out) == Concat([i \in 1..Len(out) |-> out[i].ln])

\* The lines of a part of the message among the lines yielded.
Part(kind) == SelectSeq(wr.out, LAMBDA e : e.kind = kind)

\* The Content-Length header lines yielded, as their values.
EmittedCL ==
  LET hs == SelectSeq(Part("header"),
                      LAMBDA e : lower(parseHeader(e.ln)[1]) = lower(CONTENT_LENGTH))
  IN  [i \in 1..Len(hs) |-> int(parseHeader(hs[i].ln)[2])]

\* The message came with a Content-Length that is not zero and the wrapper
\* has a body hook.
Buffering == wr.clLine \notin {<<>>, CLLine(0)} /\ wr.rwB # "none"

\* C8: for a message with a non-zero Content-Length under a wrapper with a
\* body hook, the Content-Length the wrapper yields is the total length of
\* the body chunks it yields after it, and no body chunk is yielded before
\* the last one has been read.
C8_ContentLengthOfRewrittenBody ==
  Buffering =>
    /\ \A i, j \in 1..Len(wr.log) : (i < j /\ wr.log[i] = "e") => wr.log[j] = "e"
    /\ wr.pc = "Done" =>
         /\ Len(EmittedCL) = 1
         /\ EmittedCL[1] = Len(Bytes(Part("body")))
         /\ \A i, j \in 1..Len(wr.out) :
              (wr.out[i].kind = "body" /\ wr.out[j].kind = "header") => j < i

\* C8 witness: a body of two lines was rewritten to a longer one and yielded
\* whole under a Content-Length that is not the one received.
C8_Witness ==
  /\ Buffering /\ wr.pc = "Done" /\ wr.rwB = "map"
  /\ Len(Part("body")) = 2
  /\ Len(EmittedCL) = 1
  /\ wr.clLine # CLLine(EmittedCL[1])
  /\ EmittedCL[1] > 3

\* The bytes of the message that the wrapper took from its source.
Taken == Take(wr.orig, Len(wr.orig) - Len(wr.src.buf))

\* C9: a wrapper with no header hook and no body hook yields the bytes of
\* the message it read, unchanged.
C9_RoundTrip ==
  (wr.pc = "Done" /\ wr.rwH = "none" /\ wr.rwB = "none") => Bytes(wr.out) = Taken

\* What the rewriting of url from the root from to the root to is to give.
Expected(url, from, to) ==
  LET rests  == {k \in 0..Len(url) : k = Len(url) \/ url[k + 1] = "/"}
      byUrl  == {k \in rests : url = from.url \o Drop(url, k)}
      byPath == {k \in rests : url = from.path \o Drop(url, k)}
  IN  IF byUrl # {} THEN Some(to.url \o Drop(url, CHOOSE k \in byUrl : TRUE))
      ELSE IF byPath # {} THEN Some(to.path \o Drop(url, CHOOSE k \in byPath : TRUE))
      ELSE IF Some(url) = from.host THEN to.host
      ELSE Some(url)

\* C10: rewriting gives to.url + rest when url = from.url + rest and rest is
\* empty or begins with "/"; else to.path + rest when url = from.path + rest
\* likewise; else to.host when url is from.host; else url.  rewriteLocal is
\* this from local to remote, rewriteRemote from remote to local.
C10_RewritePrecedence ==
  /\ (loc.pc = "Done" /\ loc.op = "local") =>
        loc.result = Expected(loc.url, loc.local, loc.remote)
  /\ (loc.pc = "Done" /\ loc.op = "remote") =>
        loc.result = Expected(loc.url, loc.remote, loc.local)

\* C10 witness: a url under the local root's path, not under its url, was
\* rewritten to the remote root's path with the rest kept.
C10_Witness ==
  /\ loc.pc = "Done" /\ loc.op = "local"
  /\ ~startswith(loc.url, loc.local.url)
  /\ loc.local.path = <<"/", "a">> /\ loc.remote.path = <<"/", "b">>
  /\ loc.url = <<"/", "a", "/", "x">>
  /\ loc.result = Some(<<"/", "b", "/", "x">>)

\* The lines written to the backends for request r, and those written to the
\* client for response r.
SentFor(r) ==
  LET es == SelectSeq(serverOut, LAMBDA e : e[1] = r) IN [i \in 1..Len(es) |-> es[i][3]]
WrittenFor(r) ==
  LET es == SelectSeq(clientOut, LAMBDA e : e[1] = r) IN [i \in 1..Len(es) |-> es[i][2]]

\* The lines after the first blank one.
RECURSIVE AfterBlank(_)
AfterBlank(lines) ==
  IF lines = <<>> THEN <<>>
  ELSE IF isspace(lines[1]) THEN Tail(lines) ELSE AfterBlank(Tail(lines))

\* The request dispatch holds was sent whole to a backend and dispatch is back
\* at the loop's test.
Forwarded ==
  /\ dpc = "Loop" /\ Len(parsed) >= 1 /\ req.rid = Len(parsed)
  /\ parsed[req.rid].valid /\ mapper(req).kind = "map"

\* Every backend of the session keeps its connection and answers each request
\* with a response of declared length 1.
KeepAlive == \A d \in Dest : servers[d].pooled => servers[d].sock.end = "hang"

\* C11: a message of declared length n yields a body of exactly n bytes when
\* the connection has them, and nothing after them is consumed.  For a
\* request sent to a backend: the body sent is the n bytes after its blank
\* line and the client's stream stands right after them.  For the responses
\* of a keep-alive backend: each is written to the client as its own start
\* line, header, blank line and one body byte, the next one starting where
\* it ended.
C11_BodyOfDeclaredLength ==
  /\ Forwarded =>
       LET n == Min(getContentLength(req).n, Len(bodyStart))
       IN  /\ Concat(AfterBlank(SentFor(req.rid))) = Take(bodyStart, n)
           /\ client.buf = Drop(bodyStart, n)
  /\ KeepAlive =>
       \A k \in 1..Len(enq) :
         enq[k][2] = "http" =>
           LET ls  == WrittenFor(enq[k][1])
               exp == <<StatusLine, CLLine(1), Blank, <<"z">>>>
           IN  Len(ls) <= 4 /\ \A i \in 1..Len(ls) : ls[i] = exp[i]

\* C11 witness: two requests with a body were sent one after the other to
\* the same keep-alive backend, and both responses were written whole.
C11_Witness ==
  /\ Forwarded /\ req.rid = 2 /\ KeepAlive
  /\ Concat(AfterBlank(SentFor(1))) = <<"x">>
  /\ Concat(AfterBlank(SentFor(2))) = <<"x">>
  /\ Len(WrittenFor(1)) = 4 /\ Len(WrittenFor(2)) = 4

\* The request dispatch holds has been parsed and checked.
Checked == Len(parsed) >= 1 /\ req.rid = Len(parsed)

\* No entry of the header list is named Host.
NoHost(headers) == \A i \in 1..Len(headers) : lower(headers[i][1]) # lower(HOST)

\* C12: a parsed request is flagged invalid exactly when its start line does
\* not split into three words or its header list has no Host header.
C12_InvalidIffMalformed ==
  Checked => (~req.valid <=> (Len(split(req.headline)) # 3 \/ NoHost(req.headers)))

\* C13: a dispatcher opens at most one connection for a destination: its
\* first request for the destination opens it and the later ones get that
\* same connection; no connection is given to two dispatchers.
C13_OneConnectionPerDestination ==
  \A j \in 1..Len(pool.calls) :
    LET c    == pool.calls[j]
        same == {i \in 1..(j - 1) : pool.calls[i].disp = c.disp
                                    /\ pool.calls[i].destn = c.destn}
    IN  /\ c.connected <=> same = {}
        /\ \A i \in same : pool.calls[i].server = c.server
        /\ \A i \in 1..(j - 1) :
             pool.calls[i].disp # c.disp => pool.calls[i].server # c.server

\* C13 witness: a dispatcher asked twice for a destination that another
\* dispatcher uses too: two connections were made, one for each.
C13_Witness ==
  /\ Len(pool.calls) = 3 /\ pool.made = 2
  /\ pool.calls[1].disp = 1 /\ pool.calls[2].disp = 2 /\ pool.calls[3].disp = 1
  /\ \A i \in 1..3 : pool.calls[i].destn = "A"
  /\ pool.calls[3].server = pool.calls[1].server
  /\ ~pool.calls[3].connected

\* The microthreads that are inside the loop of processResponses.
Draining ==
  {t \in TaskIds : tasks[t].pc \in {"While", "NextLine", "WriteClient",
                                    "ReadServer", "AfterResp"}}

\* C14: at most one drain is in progress at any time, and a drain invoked
\* while the guard is set returns at once: it removes nothing from the queue
\* and writes nothing to the client.
C14_OneDrainAtATime ==
  [][/\ Cardinality(Draining') <= 1
     /\ \A t \in TaskIds :
          (Draining # {} /\ tasks[t].pc = "Spawned" /\ tasks'[t].pc # "Spawned") =>
             /\ tasks'[t].pc = "Done"
             /\ responses' = responses /\ clientOut' = clientOut
             /\ Draining' = Draining]_vars

\* C14 witness: the drain of the first response is writing to the client, a
\* second response is queued, and the drain spawned for it has returned.
C14_Witness ==
  /\ dpc # "Done" /\ Len(enq) = 2 /\ Len(responses) = 1
  /\ \E t1, t2 \in TaskIds :
       t1 # t2 /\ tasks[t1].pc = "WriteClient" /\ tasks[t2].pc = "Done"

\* C15: a response leaves the queue only when all its lines have been
\* written: the response a drain is writing is still an entry of the queue.
C15_RemovedAfterWritten ==
  \A t \in TaskIds :
    tasks[t].pc \in {"NextLine", "WriteClient", "ReadServer"} =>
      \E k \in 1..Len(responses) : responses[k].rid = tasks[t].resp.rid

\* Response r is neither in the queue nor in the hands of a drain.
Drained(r) ==
  /\ \A i \in 1..Len(responses) : responses[i].rid # r
  /\ \A t \in TaskIds :
       tasks[t].pc \in {"NextLine", "WriteClient", "ReadServer"} => tasks[t].resp.rid # r

\* C16: no wake-up is lost.  While no drain has died, a queue that is not
\* empty has a drain in progress or a spawned one about to run, so that every
\* response queued is taken; and with no I/O error (no read or write of the
\* session has failed or met the end of a stream), a literal response that
\* was taken has been written whole to the client.
C16_NoLostWakeup ==
  (\A t \in TaskIds : tasks[t].pc # "Crashed") =>
    /\ responses # <<>> => (Draining # {} \/ \E t \in TaskIds : tasks[t].pc = "Spawned")
    /\ ended = {} =>
         \A k \in 1..Len(enq) :
           (enq[k][2] \in {"400", "404"} /\ Drained(enq[k][1])) =>
              Concat(WrittenFor(enq[k][1])) = enq[k][3]

\* C16 witness: a second response was queued, the drain spawned for it
\* returned at the guard, and the drain that the first response had started
\* took it and wrote it whole.
C16_Witness ==
  /\ Len(enq) = 2 /\ ended = {} /\ responses = <<>>
  /\ tasks[1].pc = "AfterResp" /\ tasks[1].resp.rid = 2
  /\ tasks[2].pc = "Done"
  /\ Concat(WrittenFor(1)) = Resp404
  /\ Concat(WrittenFor(2)) = Resp404

\* C17: a response whose production fails while it is drained (here an
\* error reading the backend, or a backend stream that ends inside the
\* header section) is fatal to that connection only: the draining guard
\* does not stay set, and once the session has come to rest the client
\* socket and every backend socket of the session are closed.
C17_DrainFailureReleases ==
  (\E t \in TaskIds : tasks[t].pc = "Crashed") =>
     /\ Draining = {} => ~processing
     /\ Quiescent => AllClosed

\* The start line that the header hook of the wrapper leaves: for a request
\* the three words of the line read, the URI relocated, joined by single
\* spaces; for a response the line read.
HookedStartLine ==
  LET bits == split(wr.hs.headline)
      uri  == IF wr.rwH = "relocate" /\ bits[2] = <<"/a">> THEN <<"/b">> ELSE bits[2]
  IN  IF wr.hs.isReq THEN join(<<bits[1], uri, bits[3]>>, <<SP>>) \o <<CR, LF>>
      ELSE wr.hs.headline

\* The place of a part in a message.
Rank(kind) == CASE kind = "start" -> 1 [] kind = "header" -> 2
                [] kind = "sep" -> 3 [] OTHER -> 4

\* C18: the order of a rewrite wrapper's steps.  What it emits first is the
\* start line, after the headers were fully parsed and with the header
\* hook's mutation in it; no body byte is read from the connection before
\* the start line is out; while a body is being buffered nothing but the
\* start line has been emitted; and the header lines, the separator and the
\* body follow in that order.
C18_WrapperStepOrder ==
  /\ wr.pc # "None" /\ wr.out # <<>> =>
       /\ wr.hs.parsed
       /\ wr.out[1] = [kind |-> "start", ln |-> HookedStartLine]
  /\ wr.pc # "None" /\ wr.log # <<>> => wr.out # <<>>
  /\ wr.pc = "Buffer" => Len(wr.out) = 1
  /\ wr.pc # "None" =>
       \A i, j \in 1..Len(wr.out) : i < j => Rank(wr.out[i].kind) <= Rank(wr.out[j].kind)

\* C18 witness: a request with a relocating header hook and a buffered body
\* went through the wrapper: the start line left with the relocated URI, the
\* body was read after it, and header lines and body followed.
C18_Witness ==
  /\ wr.pc = "Done" /\ wr.hs.isReq /\ wr.rwH = "relocate" /\ Buffering
  /\ wr.out[1].ln = ReqLine("/b")
  /\ \E i \in 1..Len(wr.log) : wr.log[i] = "r"
  /\ Part("header") # <<>> /\ Part("body") # <<>>

\* The registered elements of d that no registered element contains.
Outermost(d) ==
  {i \in 1..Len(d) :
     /\ d[i].t = "S" /\ rw_content(d[i].v)
     /\ \A k \in 1..(i - 1) :
          (d[k].t = "S" /\ rw_content(d[k].v)) => Match(d, k) < i}

\* The character data of d between the events i and j, in document order.
TextBetween(d, i, j) ==
  Concat([k \in 1..(j - i - 1) |-> IF d[i + k].t = "C" THEN d[i + k].v ELSE <<>>])

\* The text of d as it was read, tags and character data.
Serialized(d) ==
  Concat([k \in 1..Len(d) |->
            CASE d[k].t = "S" -> StartTag(d[k].v)
              [] d[k].t = "E" -> EndTag(d[k].v)
              [] OTHER -> d[k].v])

\* C19: when the XML rewriter has read a whole document, rewrite has been
\* applied exactly once for every registered element (taking the outermost
\* where they nest), at that element's own end tag and to all the character
\* data between its start tag and that end tag; and a document with no
\* registered element leaves as it came.
C19_RewriteOnceAtOwnEndTag ==
  xr.pc = "Done" =>
    /\ Len(xr.calls) = Cardinality(Outermost(xr.doc))
    /\ \A i \in Outermost(xr.doc) :
         \E k \in 1..Len(xr.calls) :
           xr.calls[k] = <<Match(xr.doc, i), TextBetween(xr.doc, i, Match(xr.doc, i))>>
    /\ Outermost(xr.doc) = {} => Concat(xr.yielded) = Serialized(xr.doc)

\* The message has neither Content-Length nor Transfer-Encoding.
NoLength(hs) ==
  /\ hdrCall(hs.headers, CONTENT_LENGTH).val = <<>>
  /\ hdrCall(hs.headers, TRANSFER_ENCODING).val = <<>>

\* The drain t comes to the end of a backend response that it has read.
ResponseEnds(t) ==
  /\ tasks[t].pc = "NextLine" /\ tasks'[t].pc = "AfterResp"
  /\ tasks[t].resp.kind = "http" /\ tasks[t].resp.hs.headline # <<>>

\* C20: a request with neither Content-Length nor Transfer-Encoding has an
\* empty body: once it is forwarded nothing was sent after its blank line
\* and the client's stream stands where that line ended, so the next
\* request starts there.  A response with no Content-Length has as its body
\* all that the backend's connection held after the blank line: when its
\* iteration ends the connection is read to its end-of-stream and those
\* bytes, all of them, were written to the client as the body.
C20_BodyWithoutLength ==
  [][/\ (Forwarded /\ NoLength(req))' =>
          (AfterBlank(SentFor(req.rid)) = <<>> /\ client.buf = bodyStart)'
     /\ \A t \in TaskIds :
          (ResponseEnds(t) /\ NoLength(tasks[t].resp.hs)) =>
             LET d == tasks[t].resp.hs.src
             IN  /\ servers[d].sock.buf = <<>> /\ d \in ended
                 /\ Concat(AfterBlank(WrittenFor(tasks[t].resp.rid)))
                      = Drop(RespClose, Len(StatusLine \o Blank))]_vars

\* C20 witness: a request without a length was forwarded and the request
\* after it, read from where its blank line ended, was forwarded whole with
\* its body; the response to the first declared no length, its backend's
\* connection was read to the end-of-stream and the two lines of its body,
\* all that the backend sent, were written to the client.
C20_Witness ==
  /\ Len(parsed) = 2
  /\ Len(SentFor(1)) = 3 /\ Concat(AfterBlank(SentFor(2))) = <<"x">>
  /\ WrittenFor(1) = <<StatusLine, Blank, <<"z", LF>>, <<"w">>>>
  /\ \E d \in Dest : servers[d].pooled /\ servers[d].sock.buf = <<>> /\ d \in ended

\* C22: one response handle per request, queued before the request is sent,
\* and the requests sent one after the other.  No request ever has two
\* handles; an invalid request has its one handle as soon as dispatch has
\* answered it, and a valid one, mapped or not, has it from the moment
\* dispatch starts to send it on; a line is written to a backend only for
\* the request parsed last and only when its handle is queued; and dispatch
\* turns to the next request only when the one before has yielded all its
\* lines and has its handle.
C22_OneHandleBeforeSending ==
  [][/\ \A r \in 1..Len(parsed') : Cardinality(Enqueued(r))' <= 1
     /\ \A r \in 1..Len(parsed') :
          (~parsed'[r].valid /\ dpc' # "Bad") => Cardinality(Enqueued(r))' = 1
     /\ dpc' \in {"SendReq", "WriteServer", "ReadBody"} =>
          Cardinality(Enqueued(req.rid))' = 1
     /\ serverOut' # serverOut =>
          /\ serverOut'[Len(serverOut')][1] = Len(parsed)
          /\ Cardinality(Enqueued(Len(parsed))) = 1
     /\ (req'.rid > req.rid /\ req.rid >= 1) =>
          /\ generateLines(req).op = "end"
          /\ Cardinality(Enqueued(req.rid)) = 1]_vars

\* C22 witness: three requests were parsed, a mapped one, an unmapped one
\* and the invalid one that the end of the client's stream makes; each has
\* its one handle, in that order, and the first was sent to its backend.
C22_Witness ==
  /\ Len(parsed) = 3 /\ Len(enq) = 3
  /\ enq[1] = <<1, "http", <<>>>> /\ enq[2][2] = "404" /\ enq[3][2] = "400"
  /\ Len(SentFor(1)) = 3

\* C23: closed is absorbing for backend activity.  Once the session is
\* marked closed the mark stays, no backend connection is opened and no
\* line of a request is written to a backend.
C23_ClosedStopsBackendActivity ==
  [][closed =>
       /\ closed'
       /\ \A d \in Dest : servers'[d].pooled => servers[d].pooled
       /\ serverOut' = serverOut]_vars

\* C24: the two directions are inverse on the urls they rewrite.  When
\* rewriteLocal changed a url, rewriteRemote of what came out is that url,
\* and when rewriteRemote changed a url, rewriteLocal of what came out is
\* that url.
C24_DirectionsInverse ==
  (loc.pc = "Back" /\ loc.result # Some(loc.url)) => loc.back = Some(loc.url)

\* C24 witness: the url /a/x, under the path of the local root, was
\* rewritten across a remote root of no path to something else, and that
\* was rewritten back to /a/x.
C24_Witness ==
  /\ loc.pc = "Back" /\ loc.op = "local" /\ loc.result # Some(loc.url)
  /\ loc.local.path = <<"/", "a">> /\ loc.remote.path = <<"/">>
  /\ loc.url = <<"/", "a", "/", "x">>
  /\ loc.back = Some(loc.url)

\* A path of one segment under the root: "/" and a byte that is not "/".
Segments == {<<"/", b>> : b \in RestBytes \ {"/"}}

\* C25: a root without a path component relocates path-only urls.  With a
\* local root of path /a and a remote root of no path (its path is "/"),
\* rewriteLocal of /a/x is /x and rewriteRemote of /x is /a/x, for every
\* segment x.
C25_RootWithoutPath ==
  (loc.pc = "Done" /\ loc.local.path = <<"/", "a">> /\ loc.remote.path = <<"/">>) =>
    \A s \in Segments :
      /\ (loc.op = "local" /\ loc.url = <<"/", "a">> \o s) => loc.result = Some(s)
      /\ (loc.op = "remote" /\ loc.url = s) => loc.result = Some(<<"/", "a">> \o s)

\* C21: a DAV or SVN relocator puts a body through the XML rewriter only
\* when the request's method is in the allow-list and the Content-Type of
\* the message whose body it is, the request's for a request body and the
\* response's for a response body, is text/xml.
C21_XmlOnlyForAllowedXml ==
  /\ (dav.pc \in {"Response", "Done"} /\ dav.reqBody.xml) =>
       /\ upper(dav.method) \in filter_methods
       /\ checkContentType(dav.reqHeaders, <<"text/xml">>)
  /\ (dav.pc = "Done" /\ dav.respBody.xml) =>
       /\ upper(dav.method) \in filter_methods
       /\ checkContentType(dav.respHeaders, <<"text/xml">>)

====
